---- MODULE Spec2Model ----
(***************************************************************************)
(* State-machine model of the harvest indexer (src/src/indexer.rs): the    *)
(* token producer, the SPIMI block builder, the k-way merger that writes   *)
(* the bucketed inverted_index, and the cleanup of the block collections.  *)
(*                                                                         *)
(* DocIds are the naturals 1..MaxDoc in ObjectId byte order.  Terms are    *)
(* the naturals 1 and 2, standing for the strings "a" and "b" in byte      *)
(* order.  A positions map is a function from a set of DocIds to           *)
(* sequences of positions.  The value 0 stands for None.                   *)
(***************************************************************************)
EXTENDS Naturals, Sequences, FiniteSets

\* ---------------------------------------------------------------- bounds

\* Number of pages the crawler stores (DocIds 1..MaxDoc).
MaxDoc == 3

\* Number of indexer runs (completed or aborted) in one behaviour.
MaxRuns == 2

\* ------------------------------------------------------ program constants

\* indexer.rs:52 has 100_000; the model scales the chunk size down so that
\* full and overflowing buckets occur with a handful of pages.
DOCIDS_PER_MONGO_DOCUMENT == 2

\* indexer.rs:47  size_of::<ObjectId>()
DOCID_BYTES == 12

\* indexer.rs:241  size_of::<DictItem>() (a Vec and a BTreeMap, 64-bit target)
DICT_ITEM_BYTES == 48

\* indexer.rs:255  size_of::<Vec<u32>>() + 4
NEW_DOC_EXTRA_BYTES == 28

\* indexer.rs:261  bytes accounted per further position
POS_BYTES == 4

\* indexer.rs:240  term.len(): every term of the vocabulary is one byte long
TermLen(term) == 1

Terms == {1, 2}
DocIds == 1..MaxDoc

\* The analyzed token sequences a page can have (the result of
\* TextAnalyzer::analyze on its html_body): "a a" and "a b".
PageContents ==
    { << [term |-> 1, pos |-> 0], [term |-> 1, pos |-> 1] >>,
      << [term |-> 1, pos |-> 0], [term |-> 2, pos |-> 1] >> }

\* The values of the CLI option budget_bytes the model explores: one that
\* flushes every third or fourth token and one that never flushes early.
Budgets == {180, 100000}

\* The values of the CLI option page_fetch_limit the model explores.
PageFetchLimits == {2}

\* ---------------------------------------------------------------- helpers

Range(s) == { s[i] : i \in 1..Len(s) }

Min(S) == CHOOSE x \in S : \A y \in S : x <= y

\* The elements of a finite set of naturals in ascending order.
RECURSIVE Ascending(_)
Ascending(S) == IF S = {} THEN << >> ELSE << Min(S) >> \o Ascending(S \ {Min(S)})

\* The first n elements of s (Vec::split_off(n) leaves them in place) ...
Take(s, n) == SubSeq(s, 1, IF n < Len(s) THEN n ELSE Len(s))

\* ... and the rest (the Vec split_off returns).
Drop(s, n) == SubSeq(s, n + 1, Len(s))

\* A map restricted to the keys in S.
Restrict(f, S) == [ k \in (DOMAIN f) \cap S |-> f[k] ]

EmptyMap == << >>

\* All orders in which a store may list the collections numbered in S.
RECURSIVE Permutations(_)
Permutations(S) ==
    IF S = {} THEN { << >> }
    ELSE UNION { { << x >> \o p : p \in Permutations(S \ {x}) } : x \in S }

\* ------------------------------------------------------- pure functions

\* A two-pointer merge that pushes an element present in both lists twice.
RECURSIVE merge_sorted_lists_keep_both(_, _)
merge_sorted_lists_keep_both(list_a, list_b) ==
    IF list_a = << >> THEN list_b
    ELSE IF list_b = << >> THEN list_a
    ELSE IF Head(list_a) < Head(list_b)
         THEN << Head(list_a) >> \o merge_sorted_lists_keep_both(Tail(list_a), list_b)
    ELSE IF Head(list_a) > Head(list_b)
         THEN << Head(list_b) >> \o merge_sorted_lists_keep_both(list_a, Tail(list_b))
    ELSE << Head(list_a), Head(list_b) >>
             \o merge_sorted_lists_keep_both(Tail(list_a), Tail(list_b))

\* indexer.rs merge_sorted_lists_dedup: two-pointer union of two lists.
RECURSIVE merge_sorted_lists_dedup(_, _)
merge_sorted_lists_dedup(list_a, list_b) ==
    IF list_a = << >> THEN list_b
    ELSE IF list_b = << >> THEN list_a
    ELSE IF Head(list_a) < Head(list_b)
         THEN << Head(list_a) >> \o merge_sorted_lists_dedup(Tail(list_a), list_b)
    ELSE IF Head(list_a) > Head(list_b)
         THEN << Head(list_b) >> \o merge_sorted_lists_dedup(list_a, Tail(list_b))
    ELSE << Head(list_a) >> \o merge_sorted_lists_dedup(Tail(list_a), Tail(list_b))

\* A merge of position maps that keeps the positions it already has for a
\* key present in both maps (HashMap::extend the wrong way round).
merge_hashmaps_keep_first(map_a, map_b) ==
    [ d \in (DOMAIN map_a) \cup (DOMAIN map_b) |->
        IF d \in DOMAIN map_a THEN map_a[d] ELSE map_b[d] ]

\* indexer.rs merge_hashmaps: a key of map_b missing in map_a is inserted,
\* a key present in both gets map_b's positions appended to map_a's.
merge_hashmaps(map_a, map_b) ==
    [ d \in (DOMAIN map_a) \cup (DOMAIN map_b) |->
        IF d \in DOMAIN map_a
        THEN IF d \in DOMAIN map_b THEN map_a[d] \o map_b[d] ELSE map_a[d]
        ELSE map_b[d] ]

\* SpimiDoc::new (the _id of a block entry is never read).
SpimiDoc(term, bkt, df, postings, positions) ==
    [ term |-> term, bucket |-> bkt, document_frequency |-> df,
      postings |-> postings, positions |-> positions ]

\* Chunks that each carry the whole positions map of the term.
RECURSIVE TermChunksAllPositions(_, _, _)
TermChunksAllPositions(term, item, bkt) ==
    IF item.postings = << >> THEN {}
    ELSE LET part == Take(item.postings, DOCIDS_PER_MONGO_DOCUMENT)
             rest == [ item EXCEPT
                         !.postings = Drop(item.postings, DOCIDS_PER_MONGO_DOCUMENT) ]
         IN  { SpimiDoc(term, bkt, Len(part), part, item.positions) }
               \cup TermChunksAllPositions(term, rest, bkt + 1)

\* persist_block_to_disk, the entries written for one term: postings are cut
\* into chunks of DOCIDS_PER_MONGO_DOCUMENT in their current order, and each
\* chunk takes the positions whose key lies in [first, last] of the chunk.
RECURSIVE TermChunks(_, _, _)
TermChunks(term, item, bkt) ==
    IF item.postings = << >> THEN {}
    ELSE LET part      == Take(item.postings, DOCIDS_PER_MONGO_DOCUMENT)
             start_doc == part[1]
             end_doc   == part[Len(part)]
             this_positions ==
                 Restrict(item.positions,
                          { k \in DOMAIN item.positions :
                              start_doc <= k /\ k <= end_doc })
             rest == [ item EXCEPT
                         !.postings = Drop(item.postings, DOCIDS_PER_MONGO_DOCUMENT) ]
         IN  { SpimiDoc(term, bkt, Len(part), part, this_positions) }
               \cup TermChunks(term, rest, bkt + 1)

\* A flush that writes the entries of the first term of the sorted terms
\* only.
persist_first_term_only(dictionary) ==
    UNION { TermChunks(term, dictionary[term], 0) :
              term \in { t \in DOMAIN dictionary :
                           \A o \in DOMAIN dictionary : t <= o } }

\* persist_block_to_disk: the collection written for a dictionary (empty for
\* an empty dictionary: create_index still creates the collection).
persist_block_to_disk(dictionary) ==
    UNION { TermChunks(term, dictionary[term], 0) : term \in DOMAIN dictionary }

\* The cursor of merge_persisted_blocks over one block collection:
\* find({}) sorted by term ascending, then bucket ascending.
RECURSIVE SortedCursor(_)
SortedCursor(coll) ==
    IF coll = {} THEN << >>
    ELSE LET first == CHOOSE x \in coll : \A y \in coll :
                          \/ x.term < y.term
                          \/ x.term = y.term /\ x.bucket <= y.bucket
         IN  << first >> \o SortedCursor(coll \ {first})

\* An order by streamer_idx, then by term.
HeapLessBySource(x, y) ==
    \/ x.streamer_idx < y.streamer_idx
    \/ x.streamer_idx = y.streamer_idx /\ x.term < y.term

\* HeapItem's Ord: by term, then by streamer_idx.
HeapLess(x, y) ==
    \/ x.term < y.term
    \/ x.term = y.term /\ x.streamer_idx < y.streamer_idx

\* BinaryHeap<Reverse<HeapItem>>::pop: the least item.
HeapMin(heap) == CHOOSE x \in heap : \A y \in heap \ {x} : HeapLess(x, y)

\* ------------------------------------------------ inverted_index repository

\* InvertedIndexDoc::new with the ObjectId oid.
InvertedIndexDoc(oid, term, bkt, df, postings, positions) ==
    [ id |-> oid, term |-> term, bucket |-> bkt, document_frequency |-> df,
      postings |-> postings, positions |-> positions ]

\* InvertedIndexRepo::get_last_bucket: the documents of the term with the
\* highest bucket number (a set with at most one element for an index whose
\* (term, bucket) pairs are unique; empty when the term has no document).
get_last_bucket(index, term) ==
    { e \in index : e.term = term
                    /\ \A o \in index : o.term = term => o.bucket <= e.bucket }

\* InvertedIndexRepo::append_to_bucket: update-one-by-id that appends the
\* postings, appends each positions entry (creating missing keys) and
\* increases document_frequency by the number of postings.
append_to_bucket(index, oid, postings, positions) ==
    { IF e.id = oid
      THEN [ e EXCEPT !.postings = e.postings \o postings,
                      !.positions = merge_hashmaps(e.positions, positions),
                      !.document_frequency = e.document_frequency + Len(postings) ]
      ELSE e : e \in index }

\* InvertedIndexRepo::insert.
insert(index, doc) == index \cup {doc}

\* flush_term_to_db on the merger's store state st = [index, next_oid,
\* bucket, existing_bucket_id]: nothing for empty postings; an update of the
\* existing bucket when existing_bucket_id is set (and taken), an insert of
\* a new bucket document otherwise; then bucket += 1.
flush_term_to_db(st, term, postings, positions) ==
    IF postings = << >> THEN st
    ELSE IF st.existing_bucket_id # 0
    THEN [ st EXCEPT
             !.index = append_to_bucket(st.index, st.existing_bucket_id,
                                        postings, positions),
             !.existing_bucket_id = 0,
             !.bucket = st.bucket + 1 ]
    ELSE [ st EXCEPT
             !.index = insert(st.index,
                              InvertedIndexDoc(st.next_oid, term, st.bucket,
                                               Len(postings), postings, positions)),
             !.next_oid = st.next_oid + 1,
             !.bucket = st.bucket + 1 ]

\* A merger that never reopens a partial bucket: it always starts the bucket
\* after the last one.
StartNextBucket(st, last_bucket) ==
    [ st EXCEPT !.bucket = last_bucket.bucket + 1,
                !.existing_bucket_id = 0 ]

\* merge_persisted_blocks, "Load existing bucket state": continue in the
\* last bucket when it has room, else start the bucket after it.
ContinueFrom(st, last_bucket) ==
    IF Len(last_bucket.postings) < DOCIDS_PER_MONGO_DOCUMENT
    THEN [ st EXCEPT !.bucket = last_bucket.bucket,
                     !.existing_bucket_id = last_bucket.id ]
    ELSE [ st EXCEPT !.bucket = last_bucket.bucket + 1,
                     !.existing_bucket_id = 0 ]

\* The state after the lookup when the term changes (lines 475-501): a term
\* without a bucket starts at bucket 0.
LoadTermChange(st, last) ==
    IF last = {} THEN [ st EXCEPT !.bucket = 0, !.existing_bucket_id = 0 ]
    ELSE ContinueFrom(st, CHOOSE e \in last : TRUE)

\* The state after the lookup for the first term (lines 504-516): a term
\* without a bucket leaves bucket and existing_bucket_id as initialised.
LoadFirstTerm(st, last) ==
    IF last = {} THEN st ELSE ContinueFrom(st, CHOOSE e \in last : TRUE)

\* ------------------------------------------------------ pages repository

\* PageRepo::list_unindexed_paginated: up to limit pages with indexed = false
\* and _id after the cursor, in ascending _id order.
list_unindexed_paginated(pgs, limit, after) ==
    Take(Ascending({ d \in 1..Len(pgs) : ~pgs[d].indexed /\ d > after }), limit)

\* The continuation cursor returned with a batch: its last _id.
NextCursor(page_ids, after) ==
    IF page_ids = << >> THEN after ELSE page_ids[Len(page_ids)]

\* An update that sets indexed on every page of the collection.
mark_every_page_as_indexed(pgs, page_ids) ==
    [ d \in 1..Len(pgs) |-> [ pgs[d] EXCEPT !.indexed = TRUE ] ]

\* PageRepo::mark_many_as_indexed.
mark_many_as_indexed(pgs, page_ids) ==
    [ d \in 1..Len(pgs) |->
        IF d \in Range(page_ids) THEN [ pgs[d] EXCEPT !.indexed = TRUE ] ELSE pgs[d] ]

\* A producer that goes through the pages of a batch from the last to the
\* first.
RECURSIVE BatchTokensLastPageFirst(_, _)
BatchTokensLastPageFirst(pgs, page_ids) ==
    IF page_ids = << >> THEN << >>
    ELSE BatchTokensLastPageFirst(pgs, Tail(page_ids))
         \o [ i \in 1..Len(pgs[Head(page_ids)].tokens) |->
                [ kind |-> "Token",
                  term |-> pgs[Head(page_ids)].tokens[i].term,
                  doc_id |-> Head(page_ids),
                  pos |-> pgs[Head(page_ids)].tokens[i].pos ] ]

\* pages_to_token_stream: the Token messages of a batch, page after page,
\* each page's tokens in analyzer order.
RECURSIVE BatchTokens(_, _)
BatchTokens(pgs, page_ids) ==
    IF page_ids = << >> THEN << >>
    ELSE [ i \in 1..Len(pgs[Head(page_ids)].tokens) |->
             [ kind |-> "Token",
               term |-> pgs[Head(page_ids)].tokens[i].term,
               doc_id |-> Head(page_ids),
               pos |-> pgs[Head(page_ids)].tokens[i].pos ] ]
         \o BatchTokens(pgs, Tail(page_ids))

EndMsg == [ kind |-> "End" ]

\* ---------------------------------------------------------- SPIMI builder

\* DictItem::new.
NewDictItem == [ postings |-> << >>, positions |-> EmptyMap ]

\* A builder that pushes the DocId to postings for every token.
DictAfterTokenAlwaysPush(d, term, doc_id, pos) ==
    LET item == IF term \in DOMAIN d THEN d[term] ELSE NewDictItem
        next == [ postings |-> Append(item.postings, doc_id),
                  positions |-> [ k \in (DOMAIN item.positions) \cup {doc_id} |->
                                    IF k \in DOMAIN item.positions
                                    THEN IF k = doc_id
                                         THEN Append(item.positions[k], pos)
                                         ELSE item.positions[k]
                                    ELSE << pos >> ] ]
    IN  [ t \in (DOMAIN d) \cup {term} |-> IF t = term THEN next ELSE d[t] ]

\* spimi_invert, lines 237-263: the dictionary after one token.
DictAfterToken(d, term, doc_id, pos) ==
    LET item == IF term \in DOMAIN d THEN d[term] ELSE NewDictItem
        next == IF doc_id \in DOMAIN item.positions
                THEN [ item EXCEPT
                         !.positions = [ item.positions EXCEPT
                                           ![doc_id] = Append(@, pos) ] ]
                ELSE [ postings |-> Append(item.postings, doc_id),
                       positions |-> [ k \in (DOMAIN item.positions) \cup {doc_id} |->
                                         IF k = doc_id THEN << pos >>
                                         ELSE item.positions[k] ] ]
    IN  [ t \in (DOMAIN d) \cup {term} |-> IF t = term THEN next ELSE d[t] ]

\* spimi_invert, lines 239-262: the bytes accounted for one token.
TokenBytes(d, term, doc_id) ==
    (IF term \in DOMAIN d THEN 0 ELSE TermLen(term) + DICT_ITEM_BYTES)
    + (IF term \in DOMAIN d /\ doc_id \in DOMAIN d[term].positions
       THEN POS_BYTES
       ELSE DOCID_BYTES + NEW_DOC_EXTRA_BYTES)

\* ------------------------------------------------------------------ state

VARIABLES
    pages,              \* the pages collection: pages[d] = [tokens, indexed]
    inverted_index,     \* the inverted_index collection (a set of documents)
    spimi_blocks,       \* the spimi_block_* collections, in creation order
    next_oid,           \* the next fresh ObjectId of an inverted_index document
    producer_pc,        \* the spawned tokenization task: idle, tokenize, mark,
                        \*   list, end, done
    batch,              \* its local `pages` (the DocIds of the current batch)
    cursor,             \* its pagination cursor (0 = None)
    page_fetch_limit,   \* Indexer.page_fetch_limit
    token_stream,       \* the unbounded channel of StreamMsg
    builder_pc,         \* spimi_invert and the merge: idle, invert,
                        \*   merge_start, merge, final_flush, cleanup
    dict,               \* spimi_invert's dictionary
    used_bytes,         \* spimi_invert's byte estimate
    budget_bytes,       \* the run's memory budget
    streamers,          \* the merge's cursors: what each has not yet returned
    min_terms,          \* the merge's heap (a set of HeapItems)
    current_postings,   \* merge accumulator
    current_positions,  \* merge accumulator
    bucket,             \* merge: next bucket number of the active term
    active_term,        \* merge: the active term (0 = None)
    existing_bucket_id, \* merge: last partial bucket to append to (0 = None)
    runs,               \* number of runs started
    run_status,         \* none, running, completed, aborted (the last run)
    index_at_start,     \* inverted_index when the last run started
    run_admitted,       \* DocIds whose tokens the last run sent on the stream
    run_failed,         \* the analysis failures of the last run: [page, batch]
    run_blocks,         \* the block entries the last run's merge opened
    num_blocks,         \* the number of collections the last merge listed
    orphans,            \* the block collections found when the last run started
    sent,               \* the messages the producer of the run has sent
    received,           \* the messages spimi_invert has received in the run
    merge_log,          \* the pops, lookups and final flushes of the merge
    query_status,       \* none, done (the last call of QueryEngine::query)
    query_terms,        \* its analyzed terms, in query order
    query_reads,        \* the number of finds it issued on inverted_index
    query_result,       \* the DocIds it returned
    pi_args,            \* the arguments of the last positional_intersect
    pi_out,             \* the matches it returned
    list_a,             \* merge_sorted_lists_dedup: its first argument
    list_b,             \* its second argument
    merge_pc,           \* none, returned
    merged,             \* the list it returned
    raw_content,        \* TextAnalyzer::analyze: its argument (HTML nodes)
    analyzer_pc,        \* none, returned
    analyzed,           \* the tokens it returned
    crawler_pc,         \* Crawler: new, crawling
    crawl_channel,      \* crawl_tx/crawl_rx: the frontier of (url, depth)
    visited_urls,       \* Crawler.visited_urls
    tasks,              \* the tasks crawl_url spawned, in spawn order
    concurrency_semaphore, \* the free permits of the semaphore
    fetched_channel,    \* fetched_tx/fetched_rx: pages for the inserter
    upserted,           \* the URLs the inserter wrote to the pages collection
    skipped,            \* the URLs the crawler loop dropped as already visited
    request,            \* search_handler: the request and what the store
                        \*   answers during the call
    handler_pc,         \* none, responded, panicked
    response            \* the response it returned

vars == << pages, inverted_index, spimi_blocks, next_oid, producer_pc, batch,
           cursor, page_fetch_limit, token_stream, builder_pc, dict, used_bytes,
           budget_bytes, streamers, min_terms, current_postings,
           current_positions, bucket, active_term, existing_bucket_id, runs,
           run_status, index_at_start, run_admitted, run_failed, run_blocks,
           num_blocks, orphans, sent, received, merge_log,
           query_status, query_terms, query_reads, query_result, pi_args,
           pi_out, list_a, list_b, merge_pc, merged, raw_content, analyzer_pc,
           analyzed, crawler_pc, crawl_channel, visited_urls, tasks,
           concurrency_semaphore, fetched_channel, upserted, skipped,
           request, handler_pc, response >>

store_vars == << pages, inverted_index, spimi_blocks, next_oid >>

producer_vars == << producer_pc, batch, cursor, page_fetch_limit >>

builder_vars == << dict, used_bytes, budget_bytes >>

merge_vars == << streamers, min_terms, current_postings, current_positions,
                 bucket, active_term, existing_bucket_id >>

history_vars == << runs, run_status, index_at_start, run_admitted, run_failed,
                  run_blocks, num_blocks, orphans >>

log_vars == << sent, received, merge_log >>

query_vars == << query_status, query_terms, query_reads, query_result, pi_args,
                 pi_out >>

merge_lists_vars == << list_a, list_b, merge_pc, merged >>

analyzer_vars == << raw_content, analyzer_pc, analyzed >>

crawler_vars == << crawler_pc, crawl_channel, visited_urls, tasks,
                   concurrency_semaphore, fetched_channel, upserted, skipped >>

handler_vars == << request, handler_pc, response >>

\* merge_sorted_lists_dedup has not been called on its own.
MergeListsIdle ==
    /\ list_a = << >>
    /\ list_b = << >>
    /\ merge_pc = "none"
    /\ merged = << >>

\* The analyzer has not been called on its own.
AnalyzerIdle ==
    /\ raw_content = << >>
    /\ analyzer_pc = "none"
    /\ analyzed = << >>

\* No crawler has been constructed.
CrawlerIdle ==
    /\ crawler_pc = "none"
    /\ crawl_channel = << >>
    /\ visited_urls = {}
    /\ tasks = << >>
    /\ concurrency_semaphore = 0
    /\ fetched_channel = << >>
    /\ upserted = {}
    /\ skipped = {}

\* No search request has been made.
HandlerIdle ==
    /\ request = << >>
    /\ handler_pc = "none"
    /\ response = << >>

\* No query has been made and positional_intersect has not been called.
QueryIdle ==
    /\ query_status = "none"
    /\ query_terms = << >>
    /\ query_reads = 0
    /\ query_result = << >>
    /\ pi_args = << >>
    /\ pi_out = << >>

\* The merge's local state as merge_persisted_blocks initialises it.
MergeIdle ==
    /\ streamers' = << >>
    /\ min_terms' = {}
    /\ current_postings' = << >>
    /\ current_positions' = EmptyMap
    /\ bucket' = 0
    /\ active_term' = 0
    /\ existing_bucket_id' = 0

\* run has returned (or the process is gone): the tasks' locals and the
\* channel no longer exist.
RunReturns(status) ==
    /\ builder_pc' = "idle"
    /\ producer_pc' = "idle"
    /\ batch' = << >>
    /\ cursor' = 0
    /\ page_fetch_limit' = 0
    /\ token_stream' = << >>
    /\ dict' = EmptyMap
    /\ used_bytes' = 0
    /\ budget_bytes' = 0
    /\ MergeIdle
    /\ run_status' = status

\* The stores are empty and no indexer run has started.
EmptyStore ==
    /\ pages = << >>
    /\ inverted_index = {}
    /\ spimi_blocks = << >>
    /\ next_oid = 1
    /\ producer_pc = "idle"
    /\ batch = << >>
    /\ cursor = 0
    /\ page_fetch_limit = 0
    /\ token_stream = << >>
    /\ builder_pc = "idle"
    /\ dict = EmptyMap
    /\ used_bytes = 0
    /\ budget_bytes = 0
    /\ streamers = << >>
    /\ min_terms = {}
    /\ current_postings = << >>
    /\ current_positions = EmptyMap
    /\ bucket = 0
    /\ active_term = 0
    /\ existing_bucket_id = 0
    /\ runs = 0
    /\ run_status = "none"
    /\ index_at_start = {}
    /\ run_admitted = {}
    /\ run_failed = {}
    /\ run_blocks = {}
    /\ num_blocks = 0
    /\ orphans = << >>
    /\ sent = << >>
    /\ received = << >>
    /\ merge_log = << >>

Init ==
    /\ EmptyStore
    /\ QueryIdle
    /\ MergeListsIdle
    /\ AnalyzerIdle
    /\ CrawlerIdle
    /\ HandlerIdle

\* ---------------------------------------------------------------- crawler

\* The crawler stores a new page (Page::new: a fresh, larger ObjectId and
\* indexed = false).  Pages are added between indexer runs.
CrawlPage ==
    /\ run_status # "running"
    /\ Len(pages) < MaxDoc
    /\ \E content \in PageContents :
         pages' = Append(pages, [ tokens |-> content, indexed |-> FALSE ])
    /\ UNCHANGED << inverted_index, spimi_blocks, next_oid, producer_vars,
                    token_stream, builder_pc, builder_vars, merge_vars,
                    history_vars >>
    /\ UNCHANGED log_vars
    /\ UNCHANGED << query_vars, merge_lists_vars, analyzer_vars, crawler_vars,
                    handler_vars >>

\* --------------------------------------------------------------- producer

\* A producer that ends without a message when it is handed no page.
LoopOrReturn(page_ids) == IF page_ids = << >> THEN "done" ELSE "tokenize"

\* Where the spawned task goes with a freshly listed batch: into the loop
\* body, or past the loop to the End message.
LoopOrEnd(page_ids) == IF page_ids = << >> THEN "end" ELSE "tokenize"

\* Indexer::run, lines 119-136 and 181-182: the first batch is listed, the
\* tokenization task is spawned and spimi_invert starts.
StartRun ==
    /\ run_status # "running"
    /\ runs < MaxRuns
    /\ \E limit \in PageFetchLimits, budget \in Budgets :
         /\ page_fetch_limit' = limit
         /\ budget_bytes' = budget
         /\ batch' = list_unindexed_paginated(pages, limit, 0)
         /\ cursor' = NextCursor(batch', 0)
    /\ producer_pc' = LoopOrEnd(batch')
    /\ builder_pc' = "invert"
    /\ token_stream' = << >>
    /\ dict' = EmptyMap
    /\ used_bytes' = 0
    /\ MergeIdle
    /\ runs' = runs + 1
    /\ run_status' = "running"
    /\ index_at_start' = inverted_index
    /\ run_admitted' = {}
    /\ run_failed' = {}
    /\ run_blocks' = {}
    /\ orphans' = spimi_blocks
    /\ sent' = << >>
    /\ received' = << >>
    /\ merge_log' = << >>
    /\ UNCHANGED << store_vars, num_blocks >>
    /\ UNCHANGED << query_vars, merge_lists_vars, analyzer_vars, crawler_vars,
                    handler_vars >>

\* Lines 139-146: pages_to_token_stream sends every token of the batch.
ProducerTokenize ==
    /\ producer_pc = "tokenize"
    /\ token_stream' = token_stream \o BatchTokens(pages, batch)
    /\ sent' = sent \o BatchTokens(pages, batch)
    /\ run_admitted' = run_admitted \cup Range(batch)
    /\ producer_pc' = "mark"
    /\ UNCHANGED << store_vars, batch, cursor, page_fetch_limit, builder_pc,
                    builder_vars, merge_vars, runs, run_status, index_at_start,
                    run_failed, run_blocks, num_blocks, orphans, received,
                    merge_log >>
    /\ UNCHANGED << query_vars, merge_lists_vars, analyzer_vars, crawler_vars,
                    handler_vars >>

\* Lines 146-147 with pages_to_token_stream, line 194: analyze returns Err
\* for one page of the batch.  The ? returns from pages_to_token_stream at
\* once: the pages before it have sent their tokens, the pages after it are
\* not looked at, and run logs the error and skips mark_many_as_indexed.
ProducerAnalyzeErr ==
    /\ producer_pc = "tokenize"
    /\ \E i \in 1..Len(batch) :
         /\ token_stream' = token_stream \o BatchTokens(pages, Take(batch, i - 1))
         /\ sent' = sent \o BatchTokens(pages, Take(batch, i - 1))
         /\ run_admitted' = run_admitted \cup Range(Take(batch, i - 1))
         /\ run_failed' = run_failed \cup { [ page |-> batch[i], batch |-> batch ] }
    /\ producer_pc' = "list"
    /\ UNCHANGED << store_vars, batch, cursor, page_fetch_limit, builder_pc,
                    builder_vars, merge_vars, runs, run_status, index_at_start,
                    run_blocks, num_blocks, orphans, received, merge_log >>
    /\ UNCHANGED << query_vars, merge_lists_vars, analyzer_vars, crawler_vars,
                    handler_vars >>

\* Lines 150-154: mark_many_as_indexed succeeds.
ProducerMarkOk ==
    /\ producer_pc = "mark"
    /\ pages' = mark_many_as_indexed(pages, batch)
    /\ producer_pc' = "list"
    /\ UNCHANGED << inverted_index, spimi_blocks, next_oid, batch, cursor,
                    page_fetch_limit, token_stream, builder_pc, builder_vars,
                    merge_vars, history_vars >>
    /\ UNCHANGED log_vars
    /\ UNCHANGED << query_vars, merge_lists_vars, analyzer_vars, crawler_vars,
                    handler_vars >>

\* Lines 150-151: mark_many_as_indexed fails; the error is logged.
ProducerMarkErr ==
    /\ producer_pc = "mark"
    /\ producer_pc' = "list"
    /\ UNCHANGED << store_vars, batch, cursor, page_fetch_limit, token_stream,
                    builder_pc, builder_vars, merge_vars, history_vars >>
    /\ UNCHANGED log_vars
    /\ UNCHANGED << query_vars, merge_lists_vars, analyzer_vars, crawler_vars,
                    handler_vars >>

\* Lines 163-172: the next batch is listed.
ProducerListOk ==
    /\ producer_pc = "list"
    /\ batch' = list_unindexed_paginated(pages, page_fetch_limit, cursor)
    /\ cursor' = NextCursor(batch', cursor)
    /\ producer_pc' = LoopOrEnd(batch')
    /\ UNCHANGED << store_vars, page_fetch_limit, token_stream, builder_pc,
                    builder_vars, merge_vars, history_vars >>
    /\ UNCHANGED log_vars
    /\ UNCHANGED << query_vars, merge_lists_vars, analyzer_vars, crawler_vars,
                    handler_vars >>

\* A producer that returns from the task when listing the next batch fails.
ProducerListErrReturns ==
    /\ producer_pc = "list"
    /\ producer_pc' = "done"
    /\ UNCHANGED << store_vars, batch, cursor, page_fetch_limit, token_stream,
                    builder_pc, builder_vars, merge_vars, history_vars >>
    /\ UNCHANGED log_vars
    /\ UNCHANGED << query_vars, merge_lists_vars, analyzer_vars, crawler_vars,
                    handler_vars >>

\* Lines 167-169: listing the next batch fails; the loop is left.
ProducerListErr ==
    /\ producer_pc = "list"
    /\ producer_pc' = "end"
    /\ UNCHANGED << store_vars, batch, cursor, page_fetch_limit, token_stream,
                    builder_pc, builder_vars, merge_vars, history_vars >>
    /\ UNCHANGED log_vars
    /\ UNCHANGED << query_vars, merge_lists_vars, analyzer_vars, crawler_vars,
                    handler_vars >>

\* Line 174: the End message.
ProducerEnd ==
    /\ producer_pc = "end"
    /\ token_stream' = Append(token_stream, EndMsg)
    /\ sent' = Append(sent, EndMsg)
    /\ producer_pc' = "done"
    /\ UNCHANGED << store_vars, batch, cursor, page_fetch_limit, builder_pc,
                    builder_vars, merge_vars, history_vars, received,
                    merge_log >>
    /\ UNCHANGED << query_vars, merge_lists_vars, analyzer_vars, crawler_vars,
                    handler_vars >>

\* ---------------------------------------------------------------- builder

\* spimi_invert, lines 231-296: one Token is received and accounted; when
\* the estimate reaches the budget the dictionary is persisted as a block
\* and the dictionary and the estimate are reset.
BuilderRecvToken ==
    /\ builder_pc = "invert"
    /\ token_stream # << >>
    /\ Head(token_stream).kind = "Token"
    /\ LET token == Head(token_stream)
           grown == DictAfterToken(dict, token.term, token.doc_id, token.pos)
           bytes == used_bytes + TokenBytes(dict, token.term, token.doc_id)
       IN  IF bytes >= budget_bytes
           THEN /\ spimi_blocks' = Append(spimi_blocks, persist_block_to_disk(grown))
                /\ dict' = EmptyMap
                /\ used_bytes' = 0
           ELSE /\ spimi_blocks' = spimi_blocks
                /\ dict' = grown
                /\ used_bytes' = bytes
    /\ token_stream' = Tail(token_stream)
    /\ received' = Append(received, Head(token_stream))
    /\ UNCHANGED << pages, inverted_index, next_oid, producer_vars, builder_pc,
                    budget_bytes, merge_vars, history_vars, sent, merge_log >>
    /\ UNCHANGED << query_vars, merge_lists_vars, analyzer_vars, crawler_vars,
                    handler_vars >>

\* spimi_invert, lines 234 and 298-306: End leaves the loop and the final
\* flush persists whatever the dictionary holds.
BuilderRecvEnd ==
    /\ builder_pc = "invert"
    /\ token_stream # << >>
    /\ Head(token_stream).kind = "End"
    /\ spimi_blocks' = Append(spimi_blocks, persist_block_to_disk(dict))
    /\ token_stream' = Tail(token_stream)
    /\ received' = Append(received, Head(token_stream))
    /\ builder_pc' = "merge_start"
    /\ UNCHANGED << pages, inverted_index, next_oid, producer_vars,
                    builder_vars, merge_vars, history_vars, sent, merge_log >>
    /\ UNCHANGED << query_vars, merge_lists_vars, analyzer_vars, crawler_vars,
                    handler_vars >>

\* ----------------------------------------------------------------- merger

\* A merger that rebuilds the index from the blocks it finds: with no block
\* it leaves an empty index.
MergeNoBlocksRebuilds ==
    /\ RunReturns("completed")
    /\ inverted_index' = {}
    /\ UNCHANGED << pages, spimi_blocks, next_oid, run_blocks >>

\* merge_persisted_blocks, lines 409-413: no block collection was listed and
\* the merge returns Ok without touching the store.
MergeNoBlocks ==
    /\ RunReturns("completed")
    /\ UNCHANGED << store_vars, run_blocks >>

\* merge_persisted_blocks, lines 393-454: the block collections are listed
\* (in an order the store chooses), a sorted cursor is opened on each and the
\* heap is primed with the first entry of every non-empty cursor.
MergeStart ==
    /\ builder_pc = "merge_start"
    /\ num_blocks' = Len(spimi_blocks)
    /\ IF Len(spimi_blocks) = 0
       THEN MergeNoBlocks
       ELSE \E order \in Permutations(1..Len(spimi_blocks)) :
              LET cursors == [ idx \in 1..Len(spimi_blocks) |->
                                 SortedCursor(spimi_blocks[order[idx]]) ]
              IN  /\ min_terms' = { [ term |-> Head(cursors[idx]).term,
                                      streamer_idx |-> idx,
                                      doc |-> Head(cursors[idx]) ] :
                                    idx \in { i \in 1..Len(cursors) :
                                                cursors[i] # << >> } }
                  /\ streamers' = [ idx \in 1..Len(cursors) |->
                                      IF cursors[idx] = << >> THEN << >>
                                      ELSE Tail(cursors[idx]) ]
                  /\ current_postings' = << >>
                  /\ current_positions' = EmptyMap
                  /\ bucket' = 0
                  /\ active_term' = 0
                  /\ existing_bucket_id' = 0
                  /\ builder_pc' = "merge"
                  /\ run_blocks' = UNION Range(spimi_blocks)
                  /\ UNCHANGED << producer_vars, token_stream, builder_vars,
                                  run_status, store_vars >>
    /\ UNCHANGED << runs, index_at_start, run_admitted, run_failed, orphans >>
    /\ UNCHANGED log_vars
    /\ UNCHANGED << query_vars, merge_lists_vars, analyzer_vars, crawler_vars,
                    handler_vars >>

\* The merger's view of the store and of its bucket counters.
MergeStore ==
    [ index |-> inverted_index, next_oid |-> next_oid, bucket |-> bucket,
      existing_bucket_id |-> existing_bucket_id ]

\* An entry of the log of the merge: a pop of the heap (line 456), the flush
\* that ends a term (lines 463 and 566-577) or the lookup of the last bucket
\* of a term (lines 477 and 506).  streamer_idx is 0 when it does not apply.
MergeEvent(op, term, streamer_idx) ==
    [ op |-> op, term |-> term, streamer_idx |-> streamer_idx ]

\* merge_persisted_blocks, lines 456-564: one iteration of the merge loop.
MergePop ==
    /\ builder_pc = "merge"
    /\ min_terms # {}
    /\ LET item    == HeapMin(min_terms)
           doc     == item.doc
           changed == active_term # 0 /\ active_term # doc.term
           \* lines 460-473: flush the old term, clear the accumulators
           st1     == IF changed
                      THEN flush_term_to_db(MergeStore, active_term,
                                            current_postings, current_positions)
                      ELSE MergeStore
           postings1  == IF changed THEN << >> ELSE current_postings
           positions1 == IF changed THEN EmptyMap ELSE current_positions
           \* lines 475-517: look up the last bucket of a new term
           st2     == IF changed
                      THEN LoadTermChange(st1, get_last_bucket(st1.index, doc.term))
                      ELSE IF active_term = 0
                      THEN LoadFirstTerm(st1, get_last_bucket(st1.index, doc.term))
                      ELSE st1
           \* lines 519-521
           merged_postings  == merge_sorted_lists_dedup(postings1, doc.postings)
           merged_positions == merge_hashmaps(positions1, doc.positions)
           \* lines 523-544
           over    == Len(merged_postings) >= DOCIDS_PER_MONGO_DOCUMENT
           flush_postings  == Take(merged_postings, DOCIDS_PER_MONGO_DOCUMENT)
           flush_positions == Restrict(merged_positions, Range(flush_postings))
           st3     == IF over
                      THEN flush_term_to_db(st2, doc.term, flush_postings,
                                            flush_positions)
                      ELSE st2
           cur     == streamers[item.streamer_idx]
       IN  /\ inverted_index' = st3.index
           /\ next_oid' = st3.next_oid
           /\ bucket' = st3.bucket
           /\ existing_bucket_id' = st3.existing_bucket_id
           /\ active_term' = doc.term
           /\ current_postings' =
                  IF over THEN Drop(merged_postings, DOCIDS_PER_MONGO_DOCUMENT)
                  ELSE merged_postings
           /\ current_positions' =
                  IF over
                  THEN Restrict(merged_positions,
                                (DOMAIN merged_positions) \ Range(flush_postings))
                  ELSE merged_positions
           \* lines 546-555: advance the cursor the entry came from
           /\ IF cur # << >>
              THEN /\ min_terms' = (min_terms \ {item})
                                   \cup { [ term |-> Head(cur).term,
                                            streamer_idx |-> item.streamer_idx,
                                            doc |-> Head(cur) ] }
                   /\ streamers' = [ streamers EXCEPT
                                       ![item.streamer_idx] = Tail(cur) ]
              ELSE /\ min_terms' = min_terms \ {item}
                   /\ streamers' = streamers
           /\ merge_log' = merge_log
                  \o << MergeEvent("pop", doc.term, item.streamer_idx) >>
                  \o (IF changed
                      THEN << MergeEvent("final_flush", active_term, 0) >>
                      ELSE << >>)
                  \o (IF changed \/ active_term = 0
                      THEN << MergeEvent("get_last_bucket", doc.term, 0) >>
                      ELSE << >>)
    /\ UNCHANGED << pages, spimi_blocks, producer_vars, token_stream,
                    builder_pc, builder_vars, history_vars, sent, received >>
    /\ UNCHANGED << query_vars, merge_lists_vars, analyzer_vars, crawler_vars,
                    handler_vars >>

\* merge_persisted_blocks, lines 566-578: the heap is drained; what is left
\* of the last term is flushed.
MergeFinalFlush ==
    /\ builder_pc = "merge"
    /\ min_terms = {}
    /\ LET st == IF active_term # 0 /\ current_postings # << >>
                 THEN flush_term_to_db(MergeStore, active_term,
                                       current_postings, current_positions)
                 ELSE MergeStore
       IN  /\ inverted_index' = st.index
           /\ next_oid' = st.next_oid
           /\ bucket' = st.bucket
           /\ existing_bucket_id' = st.existing_bucket_id
    /\ merge_log' = IF active_term # 0
                    THEN Append(merge_log, MergeEvent("final_flush", active_term, 0))
                    ELSE merge_log
    /\ builder_pc' = "cleanup"
    /\ UNCHANGED << pages, spimi_blocks, producer_vars, token_stream,
                    builder_vars, streamers, min_terms, current_postings,
                    current_positions, active_term, history_vars, sent,
                    received >>
    /\ UNCHANGED << query_vars, merge_lists_vars, analyzer_vars, crawler_vars,
                    handler_vars >>

\* A cleanup that logs a failed drop and returns Ok: the run completes with
\* its block collections still in the store.
CleanupKeepsBlocks ==
    /\ builder_pc = "cleanup"
    /\ RunReturns("completed")
    /\ UNCHANGED << store_vars, runs, index_at_start, run_admitted, run_failed,
                    run_blocks, num_blocks, orphans >>
    /\ UNCHANGED log_vars
    /\ UNCHANGED << query_vars, merge_lists_vars, analyzer_vars, crawler_vars,
                    handler_vars >>

\* cleanup_spimi_blocks, lines 594-634, and the return of run: every
\* spimi_block_* collection is dropped and the run has completed.
CleanupSpimiBlocks ==
    /\ builder_pc = "cleanup"
    /\ spimi_blocks' = << >>
    /\ RunReturns("completed")
    /\ UNCHANGED << pages, inverted_index, next_oid, runs, index_at_start,
                    run_admitted, run_failed, run_blocks, num_blocks, orphans >>
    /\ UNCHANGED log_vars
    /\ UNCHANGED << query_vars, merge_lists_vars, analyzer_vars, crawler_vars,
                    handler_vars >>

\* The process is killed, or a store operation of spimi_invert or of the
\* merge returns an error (the ? operator): the run ends where it is.  What
\* the store holds stays; the channel and every local are gone.
Abort ==
    /\ run_status = "running"
    /\ RunReturns("aborted")
    /\ sent' = << >>
    /\ received' = << >>
    /\ merge_log' = << >>
    /\ UNCHANGED << store_vars, runs, index_at_start, run_admitted, run_failed,
                    run_blocks, num_blocks, orphans >>
    /\ UNCHANGED << query_vars, merge_lists_vars, analyzer_vars, crawler_vars,
                    handler_vars >>

Next ==
    \/ CrawlPage
    \/ StartRun
    \/ ProducerTokenize
    \/ ProducerMarkOk
    \/ ProducerMarkErr
    \/ ProducerListOk
    \/ ProducerListErr
    \/ ProducerEnd
    \/ BuilderRecvToken
    \/ BuilderRecvEnd
    \/ MergeStart
    \/ MergePop
    \/ MergeFinalFlush
    \/ CleanupSpimiBlocks

\* Runs in which no store operation of the builder or the merge fails and
\* the process is not killed.
Spec == Init /\ [][Next]_vars

\* The tasks of a run are scheduled until they finish: the tokio runtime
\* polls the spawned tokenization task and the task of run (spimi_invert, the
\* merge and the cleanup) whenever they can make a step, and every store call
\* returns.  The crawler and the start of a run are under no obligation.
Fairness ==
    /\ WF_vars(ProducerTokenize)
    /\ WF_vars(ProducerMarkOk \/ ProducerMarkErr)
    /\ WF_vars(ProducerListOk \/ ProducerListErr)
    /\ WF_vars(ProducerEnd)
    /\ WF_vars(BuilderRecvToken)
    /\ WF_vars(BuilderRecvEnd)
    /\ WF_vars(MergeStart)
    /\ WF_vars(MergePop)
    /\ WF_vars(MergeFinalFlush)
    /\ WF_vars(CleanupSpimiBlocks)

\* Runs whose tasks are scheduled fairly.
SpecFair == Init /\ [][Next]_vars /\ Fairness

NextCrash ==
    \/ Next
    \/ Abort

\* Runs that may also end at any point.
SpecCrash == Init /\ [][NextCrash]_vars

\* merge_persisted_blocks called on its own (it is a pub fn): no producer and
\* no builder run, the merge starts from whatever block collections exist.
CallMerge ==
    /\ run_status # "running"
    /\ runs < MaxRuns
    /\ builder_pc' = "merge_start"
    /\ runs' = runs + 1
    /\ run_status' = "running"
    /\ index_at_start' = inverted_index
    /\ run_admitted' = {}
    /\ run_failed' = {}
    /\ run_blocks' = {}
    /\ orphans' = spimi_blocks
    /\ sent' = << >>
    /\ received' = << >>
    /\ merge_log' = << >>
    /\ UNCHANGED << store_vars, producer_vars, token_stream, builder_vars,
                    merge_vars, num_blocks >>
    /\ UNCHANGED << query_vars, merge_lists_vars, analyzer_vars, crawler_vars,
                    handler_vars >>

NextMerge ==
    \/ Next
    \/ CallMerge

\* Runs of the indexer and direct calls of the merge.
SpecMerge == Init /\ [][NextMerge]_vars

NextAnalyzeErr ==
    \/ Next
    \/ ProducerAnalyzeErr

\* Runs of the indexer with an analyzer that can return Err for a page.
SpecAnalyzeErr == Init /\ [][NextAnalyzeErr]_vars

\* ------------------------------------------------------------ query engine

\* The window intersect_postings passes to positional_intersect
\* (query_engine.rs:148).
QUERY_WINDOW == 1

\* usize::abs_diff.
AbsDiff(a, b) == IF a < b THEN b - a ELSE a - b

\* PositionalMatch::new.
PositionalMatch(doc_id, position1, position2) ==
    [ doc_id |-> doc_id, position1 |-> position1, position2 |-> position2 ]

\* positional_intersect, lines 72-81: the inner loop over positions_p2 from
\* index pp2 on, for one position of the first list.  It pushes every
\* position within k and stops at the first one that is farther and larger.
RECURSIVE ScanPositions(_, _, _, _)
ScanPositions(position1, positions_p2, pp2, k) ==
    IF pp2 > Len(positions_p2) THEN << >>
    ELSE IF AbsDiff(position1, positions_p2[pp2]) <= k
         THEN << positions_p2[pp2] >>
                  \o ScanPositions(position1, positions_p2, pp2 + 1, k)
         ELSE IF positions_p2[pp2] > position1
              THEN << >>
              ELSE ScanPositions(position1, positions_p2, pp2 + 1, k)

\* positional_intersect, lines 82-84: entries are removed from the front of l
\* while the front is farther than k from the current position.
RECURSIVE DropFar(_, _, _)
DropFar(l, position1, k) ==
    IF l # << >> /\ AbsDiff(l[1], position1) > k
    THEN DropFar(Tail(l), position1, k)
    ELSE l

\* positional_intersect, lines 67-93: the matches of one document.  l is
\* created once per document and lives on from one position of the first
\* list to the next.
RECURSIVE DocMatches(_, _, _, _, _, _)
DocMatches(doc_id, positions_p1, positions_p2, k, pp1, l) ==
    IF pp1 > Len(positions_p1) THEN << >>
    ELSE LET kept == DropFar(l \o ScanPositions(positions_p1[pp1], positions_p2, 1, k),
                             positions_p1[pp1], k)
         IN  [ i \in 1..Len(kept) |->
                 PositionalMatch(doc_id, positions_p1[pp1], kept[i]) ]
             \o DocMatches(doc_id, positions_p1, positions_p2, k, pp1 + 1, kept)

\* positional_intersect, lines 63-104: the two-pointer walk over the posting
\* lists from indexes p1 and p2 on.
RECURSIVE IntersectFrom(_, _, _, _, _, _, _)
IntersectFrom(pl1, positions_pl1, pl2, positions_pl2, k, p1, p2) ==
    IF p1 > Len(pl1) \/ p2 > Len(pl2) THEN << >>
    ELSE IF pl1[p1] = pl2[p2]
         THEN DocMatches(pl1[p1], positions_pl1[pl1[p1]], positions_pl2[pl2[p2]],
                         k, 1, << >>)
              \o IntersectFrom(pl1, positions_pl1, pl2, positions_pl2, k, p1 + 1, p2 + 1)
         ELSE IF pl1[p1] < pl2[p2]
              THEN IntersectFrom(pl1, positions_pl1, pl2, positions_pl2, k, p1 + 1, p2)
              ELSE IntersectFrom(pl1, positions_pl1, pl2, positions_pl2, k, p1, p2 + 1)

\* A positional intersection that only looks at the positions after the
\* first list's position (it misses a second term that stands before).
positional_intersect_forward(pl1, positions_pl1, pl2, positions_pl2, k) ==
    LET all == IntersectFrom(pl1, positions_pl1, pl2, positions_pl2, k, 1, 1)
    IN  SelectSeq(all, LAMBDA m : m.position1 <= m.position2)

\* positional_intersect.
positional_intersect(pl1, positions_pl1, pl2, positions_pl2, k) ==
    IntersectFrom(pl1, positions_pl1, pl2, positions_pl2, k, 1, 1)

\* intersect_postings, lines 132-137: the first index of a shortest list.
SmallestIdx(posting_lists) ==
    CHOOSE idx \in 1..Len(posting_lists) :
        /\ \A j \in 1..Len(posting_lists) :
               Len(posting_lists[idx].pl) <= Len(posting_lists[j].pl)
        /\ \A j \in 1..(idx - 1) :
               Len(posting_lists[j].pl) > Len(posting_lists[idx].pl)

\* intersect_postings, lines 157-163: position2 of the matches, grouped by
\* doc_id in the order of the matches.
NewPositions(matches) ==
    [ d \in { matches[i].doc_id : i \in 1..Len(matches) } |->
        LET of_d == SelectSeq(matches, LAMBDA m : m.doc_id = d)
        IN  [ i \in 1..Len(of_d) |-> of_d[i].position2 ] ]

\* intersect_postings, lines 141-171: the loop over the lists from index idx
\* on, skipping the smallest, with an early return on no match.
RECURSIVE IntersectLoop(_, _, _, _, _)
IntersectLoop(posting_lists, idx, smallest_idx, result, result_positions) ==
    IF idx > Len(posting_lists) THEN result
    ELSE IF idx = smallest_idx
         THEN IntersectLoop(posting_lists, idx + 1, smallest_idx, result,
                            result_positions)
         ELSE LET matches == positional_intersect(result, result_positions,
                                                  posting_lists[idx].pl,
                                                  posting_lists[idx].positions,
                                                  QUERY_WINDOW)
                  new_positions == NewPositions(matches)
              IN  IF matches = << >> THEN << >>
                  ELSE IntersectLoop(posting_lists, idx + 1, smallest_idx,
                                     Ascending(DOMAIN new_positions), new_positions)

\* QueryEngine::intersect_postings.
intersect_postings(posting_lists) ==
    IF posting_lists = << >> THEN << >>
    ELSE LET smallest_idx == SmallestIdx(posting_lists)
         IN  IntersectLoop(posting_lists, 1, smallest_idx,
                           posting_lists[smallest_idx].pl,
                           posting_lists[smallest_idx].positions)

\* A find that sorts by bucket descending.
RECURSIVE BucketOrderDescending(_)
BucketOrderDescending(docs) ==
    IF docs = {} THEN << >>
    ELSE LET first == CHOOSE x \in docs : \A y \in docs : y.bucket <= x.bucket
         IN  << first >> \o BucketOrderDescending(docs \ {first})

\* The find of query, lines 188-203: the documents of a term in ascending
\* bucket order.
RECURSIVE BucketOrder(_)
BucketOrder(docs) ==
    IF docs = {} THEN << >>
    ELSE LET first == CHOOSE x \in docs : \A y \in docs : x.bucket <= y.bucket
         IN  << first >> \o BucketOrder(docs \ {first})

\* HashMap::extend: an entry of map_b replaces map_a's entry of the same key.
Extend(map_a, map_b) ==
    [ d \in (DOMAIN map_a) \cup (DOMAIN map_b) |->
        IF d \in DOMAIN map_b THEN map_b[d] ELSE map_a[d] ]

\* query, lines 211-228: the postings and positions of the documents of one
\* term, concatenated and extended in the order the find returned them.
RECURSIVE GroupDocs(_)
GroupDocs(docs) ==
    IF docs = << >> THEN [ pl |-> << >>, positions |-> EmptyMap ]
    ELSE LET rest == GroupDocs(Tail(docs))
         IN  [ pl |-> Head(docs).postings \o rest.pl,
               positions |-> Extend(Head(docs).positions, rest.positions) ]

\* term_posting_and_positions of query for one term.
TermPostingAndPositions(index, term) ==
    GroupDocs(BucketOrder({ e \in index : e.term = term }))

\* A query that intersects the terms it found and ignores the missing ones.
query_skips_missing(index, terms) ==
    LET found == { e.term : e \in { x \in index : x.term \in Range(terms) } }
        asked == SelectSeq(terms, LAMBDA t : t \in found)
    IN  [ result |-> intersect_postings(
                         [ i \in 1..Len(asked) |->
                             TermPostingAndPositions(index, asked[i]) ]),
          reads |-> 1 ]

\* QueryEngine::query on the analyzed terms: the DocIds returned and the
\* number of finds issued on inverted_index.
query(index, terms) ==
    IF terms = << >> THEN [ result |-> << >>, reads |-> 0 ]
    ELSE LET found == { e.term : e \in { x \in index : x.term \in Range(terms) } }
         IN  IF Cardinality(found) # Len(terms)
             THEN [ result |-> << >>, reads |-> 1 ]
             ELSE [ result |-> intersect_postings(
                                   [ i \in 1..Len(terms) |->
                                       TermPostingAndPositions(index, terms[i]) ]),
                    reads |-> 1 ]

\* The terms a query or a queried page can hold.
QueryTerms == {1, 2, 3}

\* The longest analyzed query.
MaxQueryLen == 3

\* The largest window positional_intersect is called with.
MaxWindow == 2

\* The analyzed token sequences of the queried pages, with the positions the
\* tokenizer gave them before the stop words were removed: "a b c", "a b",
\* "a c b", "a a", "b a", "a the b", "c", "a b a", "a a a" and "b a a b a".
QueryContents ==
    { << [term |-> 1, pos |-> 0], [term |-> 2, pos |-> 1], [term |-> 3, pos |-> 2] >>,
      << [term |-> 1, pos |-> 0], [term |-> 2, pos |-> 1] >>,
      << [term |-> 1, pos |-> 0], [term |-> 3, pos |-> 1], [term |-> 2, pos |-> 2] >>,
      << [term |-> 1, pos |-> 0], [term |-> 1, pos |-> 1] >>,
      << [term |-> 2, pos |-> 0], [term |-> 1, pos |-> 1] >>,
      << [term |-> 1, pos |-> 0], [term |-> 2, pos |-> 2] >>,
      << [term |-> 3, pos |-> 0] >>,
      << [term |-> 1, pos |-> 0], [term |-> 2, pos |-> 1], [term |-> 1, pos |-> 2] >>,
      << [term |-> 1, pos |-> 0], [term |-> 1, pos |-> 1], [term |-> 1, pos |-> 2] >>,
      << [term |-> 2, pos |-> 0], [term |-> 1, pos |-> 1], [term |-> 1, pos |-> 2],
         [term |-> 2, pos |-> 3], [term |-> 1, pos |-> 4] >> }

\* The analyzed queries: every sequence of at most MaxQueryLen terms.
Queries == UNION { [ 1..n -> QueryTerms ] : n \in 0..MaxQueryLen }

\* The positions of a term in a page, in analyzer order.
TermPositions(page, term) ==
    LET toks == SelectSeq(page.tokens, LAMBDA tok : tok.term = term)
    IN  [ i \in 1..Len(toks) |-> toks[i].pos ]

\* The dictionary entry spimi_invert holds for a term after all tokens of
\* the pages: the pages with the term in DocId order and, for each, its
\* positions.
TermItem(pgs, term) ==
    LET docs == { d \in 1..Len(pgs) : TermPositions(pgs[d], term) # << >> }
    IN  [ postings |-> Ascending(docs),
          positions |-> [ d \in docs |-> TermPositions(pgs[d], term) ] ]

\* The inverted_index a first run leaves when one block holds every token of
\* the pages: the block's entries, one inverted_index document each.
IndexOf(pgs) ==
    { InvertedIndexDoc(e.term * (Len(pgs) + 1) + e.bucket, e.term, e.bucket,
                       e.document_frequency, e.postings, e.positions) :
        e \in UNION { TermChunks(term, TermItem(pgs, term), 0) : term \in QueryTerms } }

\* The store after the pages were crawled and indexed; no run and no query
\* is in progress.
InitQuery ==
    /\ pages \in [ 1..MaxDoc -> [ tokens : QueryContents, indexed : {TRUE} ] ]
    /\ inverted_index = IndexOf(pages)
    /\ spimi_blocks = << >>
    /\ next_oid = (MaxDoc + 1) * (MaxDoc + 1)
    /\ producer_pc = "idle"
    /\ batch = << >>
    /\ cursor = 0
    /\ page_fetch_limit = 0
    /\ token_stream = << >>
    /\ builder_pc = "idle"
    /\ dict = EmptyMap
    /\ used_bytes = 0
    /\ budget_bytes = 0
    /\ streamers = << >>
    /\ min_terms = {}
    /\ current_postings = << >>
    /\ current_positions = EmptyMap
    /\ bucket = 0
    /\ active_term = 0
    /\ existing_bucket_id = 0
    /\ runs = 1
    /\ run_status = "completed"
    /\ index_at_start = {}
    /\ run_admitted = DocIds
    /\ run_failed = {}
    /\ run_blocks = {}
    /\ num_blocks = 1
    /\ orphans = << >>
    /\ sent = << >>
    /\ received = << >>
    /\ merge_log = << >>
    /\ QueryIdle
    /\ MergeListsIdle
    /\ AnalyzerIdle
    /\ CrawlerIdle
    /\ HandlerIdle

indexer_vars == << store_vars, producer_vars, token_stream, builder_pc,
                   builder_vars, merge_vars, history_vars, log_vars >>

\* No call of the query engine has been made in this behaviour: the engine
\* keeps no state between calls, so one call per behaviour shows them all.
NoCallYet == query_status = "none" /\ pi_args = << >>

\* QueryEngine::query: the analyzed terms are looked up and intersected.
Query ==
    /\ NoCallYet
    /\ \E terms \in Queries :
         /\ query_terms' = terms
         /\ query_reads' = query(inverted_index, terms).reads
         /\ query_result' = query(inverted_index, terms).result
    /\ query_status' = "done"
    /\ UNCHANGED << indexer_vars, pi_args, pi_out, merge_lists_vars,
                    analyzer_vars, crawler_vars, handler_vars >>

\* positional_intersect on the posting lists of two terms of the index.
Intersect ==
    /\ NoCallYet
    /\ \E term1 \in QueryTerms, term2 \in QueryTerms, k \in 0..MaxWindow :
         LET l1 == TermPostingAndPositions(inverted_index, term1)
             l2 == TermPostingAndPositions(inverted_index, term2)
         IN  /\ pi_args' = << l1.pl, l1.positions, l2.pl, l2.positions, k >>
             /\ pi_out' = positional_intersect(l1.pl, l1.positions,
                                               l2.pl, l2.positions, k)
    /\ UNCHANGED << indexer_vars, query_status, query_terms, query_reads,
                    query_result, merge_lists_vars, analyzer_vars, crawler_vars,
                    handler_vars >>

NextQuery ==
    \/ Query
    \/ Intersect

\* Queries and positional intersections over an indexed corpus.
SpecQuery == InitQuery /\ [][NextQuery]_vars

\* ------------------------------------------- merge_sorted_lists_dedup alone

\* The largest element of a list handed to merge_sorted_lists_dedup.
MaxListId == 4

\* The lists the merge hands to merge_sorted_lists_dedup: the postings of a
\* block entry, strictly ascending.
SortedLists == { Ascending(S) : S \in SUBSET (1..MaxListId) }

InitMergeLists ==
    /\ EmptyStore
    /\ QueryIdle
    /\ list_a \in SortedLists
    /\ list_b \in SortedLists
    /\ merge_pc = "none"
    /\ merged = << >>
    /\ AnalyzerIdle
    /\ CrawlerIdle
    /\ HandlerIdle

\* One call of merge_sorted_lists_dedup.
MergeSortedLists ==
    /\ merge_pc = "none"
    /\ merged' = merge_sorted_lists_dedup(list_a, list_b)
    /\ merge_pc' = "returned"
    /\ UNCHANGED << indexer_vars, query_vars, list_a, list_b, analyzer_vars,
                    crawler_vars, handler_vars >>

NextMergeLists == MergeSortedLists

SpecMergeLists == InitMergeLists /\ [][NextMergeLists]_vars

\* ---------------------------------------------------------------- analyzer

\* Text is a sequence of characters.  char::is_whitespace, is_alphabetic,
\* is_alphanumeric and to_lowercase on the characters used here.
IsWhitespace(c) == c \in { " ", "\n" }

IsAlphabetic(c) == c \in { "C", "c", "a", "t", "s" }

IsAlphanumeric(c) == IsAlphabetic(c) \/ c \in { "4", "2" }

ToLowercase(c) == IF c = "C" THEN "c" ELSE c

\* str::trim_start and trim_end.
RECURSIVE TrimStart(_)
TrimStart(text) ==
    IF text # << >> /\ IsWhitespace(Head(text)) THEN TrimStart(Tail(text)) ELSE text

RECURSIVE TrimEnd(_)
TrimEnd(text) ==
    IF text # << >> /\ IsWhitespace(text[Len(text)])
    THEN TrimEnd(SubSeq(text, 1, Len(text) - 1))
    ELSE text

\* str::trim.
Trim(text) == TrimEnd(TrimStart(text))

\* HTMLTagFilter::walk_html over one element of the body with one text
\* child: a block-like element starts a new line, a text node in body
\* context is trimmed and appended after a blank, and the text of a heading
\* goes to the headings, not to the body.
WalkNode(body, node) ==
    IF node.tag = "h1" THEN body
    ELSE LET line == IF body # << >> /\ body[Len(body)] = "\n"
                     THEN body ELSE Append(body, "\n")
             sep  == IF line[Len(line)] # " " THEN Append(line, " ") ELSE line
         IN  sep \o Trim(node.text)

\* HTMLTagFilter::filter: the body text of the document.
RECURSIVE HTMLTagFilter(_, _)
HTMLTagFilter(html, body) ==
    IF html = << >> THEN body
    ELSE HTMLTagFilter(Tail(html), WalkNode(body, Head(html)))

\* TextAnalyzer::char_filter with the one character filter of the pipeline.
char_filter(content) == HTMLTagFilter(content, << >>)

\* WhiteSpaceTokenizer::tokenize (str::split_whitespace); word is the word
\* being read.
RECURSIVE WhiteSpaceTokenizer(_, _)
WhiteSpaceTokenizer(text, word) ==
    LET done == IF word = << >> THEN << >> ELSE << word >>
    IN  IF text = << >> THEN done
        ELSE IF IsWhitespace(Head(text))
             THEN done \o WhiteSpaceTokenizer(Tail(text), << >>)
             ELSE WhiteSpaceTokenizer(Tail(text), Append(word, Head(text)))

\* TextToken.
TextToken(term, pos) == [ term |-> term, pos |-> pos ]

\* TextAnalyzer::tokenize: the words with their index in the tokenizer's
\* output.
tokenize(content) ==
    LET words == WhiteSpaceTokenizer(content, << >>)
    IN  [ idx \in 1..Len(words) |-> TextToken(words[idx], idx - 1) ]

\* str::trim_matches(|c| !c.is_alphanumeric()).
RECURSIVE TrimMatches(_)
TrimMatches(term) ==
    IF term = << >> THEN term
    ELSE IF ~ IsAlphanumeric(Head(term)) THEN TrimMatches(Tail(term))
    ELSE IF ~ IsAlphanumeric(term[Len(term)])
         THEN TrimMatches(SubSeq(term, 1, Len(term) - 1))
    ELSE term

\* PunctuationStripFilter::default.
MIN_LENGTH == 2

\* PunctuationStripFilter::filter: tokens are trimmed of punctuation at both
\* ends and dropped when fewer than MIN_LENGTH characters are left.
PunctuationStripFilter(tokens) ==
    LET kept == SelectSeq(tokens,
                    LAMBDA t : /\ Len(TrimMatches(t.term)) >= MIN_LENGTH
                               /\ \E i \in 1..Len(TrimMatches(t.term)) :
                                      IsAlphanumeric(TrimMatches(t.term)[i]))
    IN  [ i \in 1..Len(kept) |-> TextToken(TrimMatches(kept[i].term), kept[i].pos) ]

\* LowerCaseTokenFilter::filter.
LowerCaseTokenFilter(tokens) ==
    [ i \in 1..Len(tokens) |->
        TextToken([ j \in 1..Len(tokens[i].term) |-> ToLowercase(tokens[i].term[j]) ],
                  tokens[i].pos) ]

\* NumericTokenFilter::filter: tokens without a letter are dropped.
NumericTokenFilter(tokens) ==
    SelectSeq(tokens, LAMBDA t : \E i \in 1..Len(t.term) : IsAlphabetic(t.term[i]))

\* get_stop_words: the English stop words that can be written with the
\* characters used here and have MIN_LENGTH characters: "at", "as".
STOP_WORDS == { << "a", "t" >>, << "a", "s" >> }

\* A stop word filter that numbers the tokens it keeps anew.
StopWordTokenFilterRenumbered(tokens) ==
    LET kept == SelectSeq(tokens, LAMBDA w : w.term \notin STOP_WORDS)
    IN  [ i \in 1..Len(kept) |-> TextToken(kept[i].term, i - 1) ]

\* StopWordTokenFilter::filter: tokens.retain.
StopWordTokenFilter(tokens) ==
    SelectSeq(tokens, LAMBDA w : w.term \notin STOP_WORDS)

\* Whether a term ends with a suffix.
EndsWith(term, suffix) ==
    /\ Len(term) >= Len(suffix)
    /\ SubSeq(term, Len(term) - Len(suffix) + 1, Len(term)) = suffix

\* porter_stemmer::stem on words over c, a, t, s: only step 1a applies
\* (sses -> ss, ies -> i, ss -> ss, s -> nothing); words of at most two
\* letters are left alone.
stem(term) ==
    IF Len(term) <= 2 THEN term
    ELSE IF EndsWith(term, << "s", "s", "e", "s" >>) THEN SubSeq(term, 1, Len(term) - 2)
    ELSE IF EndsWith(term, << "i", "e", "s" >>) THEN SubSeq(term, 1, Len(term) - 2)
    ELSE IF EndsWith(term, << "s", "s" >>) THEN term
    ELSE IF EndsWith(term, << "s" >>) THEN SubSeq(term, 1, Len(term) - 1)
    ELSE term

\* PorterStemmerTokenFilter::filter.
PorterStemmerTokenFilter(tokens) ==
    [ i \in 1..Len(tokens) |-> TextToken(stem(tokens[i].term), tokens[i].pos) ]

\* TextAnalyzer::token_filter with the filters of the pipeline built in
\* Indexer::new and main, in their order.
token_filter(tokens) ==
    PorterStemmerTokenFilter(
        StopWordTokenFilter(
            NumericTokenFilter(
                LowerCaseTokenFilter(
                    PunctuationStripFilter(tokens)))))

\* TextAnalyzer::analyze.
analyze(content) == token_filter(tokenize(char_filter(content)))

\* The most elements of an analyzed document.
MaxNodes == 2

\* The texts of the elements: "Cat. at cats", "at", "42 cats", "! Cat.",
\* " cats ", "a cats at" and "cats Cat.".
NodeTexts ==
    { << "C", "a", "t", ".", " ", "a", "t", " ", "c", "a", "t", "s" >>,
      << "a", "t" >>,
      << "4", "2", " ", "c", "a", "t", "s" >>,
      << "!", " ", "C", "a", "t", "." >>,
      << " ", "c", "a", "t", "s", " " >>,
      << "a", " ", "c", "a", "t", "s", "\n", "a", "t" >>,
      << "c", "a", "t", "s", " ", " ", "C", "a", "t", "." >> }

\* The elements of a document: paragraphs and headings with one text child.
Nodes == [ tag : { "p", "h1" }, text : NodeTexts ]

\* The documents handed to the analyzer.
RawContents == UNION { [ 1..n -> Nodes ] : n \in 0..MaxNodes }

InitAnalyzer ==
    /\ EmptyStore
    /\ QueryIdle
    /\ MergeListsIdle
    /\ raw_content \in RawContents
    /\ analyzer_pc = "none"
    /\ analyzed = << >>
    /\ CrawlerIdle
    /\ HandlerIdle

\* One call of TextAnalyzer::analyze.
Analyze ==
    /\ analyzer_pc = "none"
    /\ analyzed' = analyze(raw_content)
    /\ analyzer_pc' = "returned"
    /\ UNCHANGED << indexer_vars, query_vars, merge_lists_vars, raw_content,
                    crawler_vars, handler_vars >>

NextAnalyzer == Analyze

SpecAnalyzer == InitAnalyzer /\ [][NextAnalyzer]_vars

\* ----------------------------------------------------------------- crawler

\* The retries of one URL (crawler.rs:15).
MAX_FETCH_RETRIES == 4

\* The URLs of the crawled site.
MaxUrl == 3

\* Crawler.max_depth.
MaxDepth == 2

\* max_concurrent_fetches: the permits of the semaphore.
MaxConcurrentFetches == 1

\* frontier_size: the capacity of the crawl channel.
FrontierSize == 2

Urls == 1..MaxUrl

\* The links of the page at a URL: every page links to every other page.
Links(url) == Urls \ { url }

\* What one call of fetch_page can return: Ok(html), Ok(html) of more than
\* MAX_DOCUMENT_SIZE_BYTES, Err(NotHtml | NonHtmlExtension), Err(Other).
FetchResults == { "html", "too_large", "not_html", "other" }

\* The task crawl_url spawns for a URL.
NewTask(url, depth) ==
    [ url |-> url, depth |-> depth, pc |-> "acquire", permit |-> FALSE,
      retried |-> 0, attempts |-> 0, outcome |-> "none", to_send |-> {} ]

\* A visited set that is never consulted.
NeverVisited(visited, url) == FALSE

\* spawn_crawler, line 178: DashSet::insert returns false for a URL that is
\* already in the set.
AlreadyVisited(visited, url) == url \in visited

\* A semaphore that hands out a permit whatever its count.
AlwaysAcquirable(permits) == TRUE

\* crawl_url, line 97: Semaphore::acquire completes when a permit is free.
Acquirable(permits) == permits > 0

\* A retry guard that lets one more attempt through.
RetriesExhaustedLate(retried) == retried > MAX_FETCH_RETRIES

\* crawl_url, line 101.
RetriesExhausted(retried) == retried >= MAX_FETCH_RETRIES

\* Crawler::new.
InitCrawler ==
    /\ EmptyStore
    /\ QueryIdle
    /\ MergeListsIdle
    /\ AnalyzerIdle
    /\ crawler_pc = "new"
    /\ crawl_channel = << >>
    /\ visited_urls = {}
    /\ tasks = << >>
    /\ concurrency_semaphore = MaxConcurrentFetches
    /\ fetched_channel = << >>
    /\ upserted = {}
    /\ skipped = {}
    /\ HandlerIdle

\* Crawler::crawl: spawn_crawler sends the seed and spawns the loop, and the
\* inserter is spawned.
Crawl ==
    /\ crawler_pc = "new"
    /\ \E starting_url \in Urls :
         crawl_channel' = << [ url |-> starting_url, depth |-> 0 ] >>
    /\ crawler_pc' = "crawling"
    /\ UNCHANGED << indexer_vars, query_vars, merge_lists_vars, analyzer_vars,
                    visited_urls, tasks, concurrency_semaphore, fetched_channel,
                    upserted, skipped, handler_vars >>

\* spawn_crawler, lines 173-184: one message is received; it is dropped when
\* it is too deep or its URL was visited, otherwise the URL is recorded and
\* crawl_url spawns a task for it.
CrawlerLoop ==
    /\ crawler_pc = "crawling"
    /\ crawl_channel # << >>
    /\ crawl_channel' = Tail(crawl_channel)
    /\ LET url   == Head(crawl_channel).url
           depth == Head(crawl_channel).depth
       IN  IF depth > MaxDepth
           THEN UNCHANGED << visited_urls, tasks, skipped >>
           ELSE IF AlreadyVisited(visited_urls, url)
                THEN /\ skipped' = skipped \cup { url }
                     /\ UNCHANGED << visited_urls, tasks >>
                ELSE /\ visited_urls' = visited_urls \cup { url }
                     /\ tasks' = Append(tasks, NewTask(url, depth))
                     /\ UNCHANGED skipped
    /\ UNCHANGED << indexer_vars, query_vars, merge_lists_vars, analyzer_vars,
                    crawler_pc, concurrency_semaphore, fetched_channel, upserted,
                    handler_vars >>

\* crawl_url, line 97: the task gets its permit.
TaskAcquire ==
    /\ \E t \in 1..Len(tasks) :
         /\ tasks[t].pc = "acquire"
         /\ Acquirable(concurrency_semaphore)
         /\ tasks' = [ tasks EXCEPT ![t].pc = "fetch", ![t].permit = TRUE ]
    /\ concurrency_semaphore' = concurrency_semaphore - 1
    /\ UNCHANGED << indexer_vars, query_vars, merge_lists_vars, analyzer_vars,
                    crawler_pc, crawl_channel, visited_urls, fetched_channel,
                    upserted, skipped, handler_vars >>

\* parse_html, lines 247-266: the links of the page that are not in
\* visited_urls.
Seen(url) == { link \in Links(url) : link \notin visited_urls }

\* crawl_url, lines 105-159: fetch_page returns.  Err(Other) counts a retry
\* and the task sleeps; every other result leaves the loop and drops the
\* permit.  A page that is not too large is parsed and sent to the inserter,
\* and its links wait to be sent to the crawl channel.
TaskFetch ==
    /\ \E t \in 1..Len(tasks), res \in FetchResults :
         /\ tasks[t].pc = "fetch"
         /\ LET task == [ tasks[t] EXCEPT !.attempts = @ + 1 ]
            IN  CASE res = "other" ->
                       /\ tasks' = [ tasks EXCEPT
                                       ![t] = [ task EXCEPT !.retried = @ + 1,
                                                            !.pc = "sleep" ] ]
                       /\ UNCHANGED << concurrency_semaphore, fetched_channel >>
                  [] res = "html" ->
                       /\ tasks' = [ tasks EXCEPT
                                       ![t] = [ task EXCEPT
                                                  !.permit = FALSE,
                                                  !.outcome = "page",
                                                  !.to_send = Seen(task.url),
                                                  !.pc = IF Seen(task.url) = {}
                                                         THEN "done" ELSE "send" ] ]
                       /\ concurrency_semaphore' = concurrency_semaphore + 1
                       /\ fetched_channel' = Append(fetched_channel, task.url)
                  [] res \in { "too_large", "not_html" } ->
                       /\ tasks' = [ tasks EXCEPT
                                       ![t] = [ task EXCEPT !.permit = FALSE,
                                                            !.outcome = res,
                                                            !.pc = "done" ] ]
                       /\ concurrency_semaphore' = concurrency_semaphore + 1
                       /\ UNCHANGED fetched_channel
    /\ UNCHANGED << indexer_vars, query_vars, merge_lists_vars, analyzer_vars,
                    crawler_pc, crawl_channel, visited_urls, upserted, skipped,
                    handler_vars >>

\* crawl_url, lines 120 and 101-104: the backoff is over; the task gives up
\* and drops its permit when the retries are used up, and fetches again
\* otherwise.
TaskWake ==
    /\ \E t \in 1..Len(tasks) :
         /\ tasks[t].pc = "sleep"
         /\ IF RetriesExhausted(tasks[t].retried)
            THEN /\ tasks' = [ tasks EXCEPT ![t].permit = FALSE,
                                            ![t].outcome = "gave_up",
                                            ![t].pc = "done" ]
                 /\ concurrency_semaphore' = concurrency_semaphore + 1
            ELSE /\ tasks' = [ tasks EXCEPT ![t].pc = "fetch" ]
                 /\ UNCHANGED concurrency_semaphore
    /\ UNCHANGED << indexer_vars, query_vars, merge_lists_vars, analyzer_vars,
                    crawler_pc, crawl_channel, visited_urls, fetched_channel,
                    upserted, skipped, handler_vars >>

\* crawl_url, lines 152-154: one link is sent to the crawl channel, which
\* takes it when it has room.
TaskSendLink ==
    /\ Len(crawl_channel) < FrontierSize
    /\ \E t \in 1..Len(tasks) :
         /\ tasks[t].pc = "send"
         /\ \E link \in tasks[t].to_send :
              /\ crawl_channel' = Append(crawl_channel,
                                         [ url |-> link, depth |-> tasks[t].depth + 1 ])
              /\ tasks' = [ tasks EXCEPT
                              ![t].to_send = @ \ { link },
                              ![t].pc = IF tasks[t].to_send = { link }
                                        THEN "done" ELSE "send" ]
    /\ UNCHANGED << indexer_vars, query_vars, merge_lists_vars, analyzer_vars,
                    crawler_pc, visited_urls, concurrency_semaphore,
                    fetched_channel, upserted, skipped, handler_vars >>

\* spawn_mongo_inserter, lines 195-204: one page is received and upserted;
\* a failed upsert is logged.
MongoInserter ==
    /\ fetched_channel # << >>
    /\ fetched_channel' = Tail(fetched_channel)
    /\ \E ok \in BOOLEAN :
         upserted' = IF ok THEN upserted \cup { Head(fetched_channel) } ELSE upserted
    /\ UNCHANGED << indexer_vars, query_vars, merge_lists_vars, analyzer_vars,
                    crawler_pc, crawl_channel, visited_urls, tasks,
                    concurrency_semaphore, skipped, handler_vars >>

NextCrawler ==
    \/ Crawl
    \/ CrawlerLoop
    \/ TaskAcquire
    \/ TaskFetch
    \/ TaskWake
    \/ TaskSendLink
    \/ MongoInserter

\* One crawl.
SpecCrawler == InitCrawler /\ [][NextCrawler]_vars

\* ----------------------------------------------------------- search handler

\* The length of a result's snippet in bytes (handlers.rs:75-76), scaled
\* down from 200.
SNIPPET_BYTES == 3

\* The term a word of the query text is analyzed to: the letters a, b and c
\* name the terms 1, 2 and 3 of the queried pages, any other word is a term
\* no page holds.
QueryTerm(word) ==
    CASE word = << "a" >> -> 1
      [] word = << "b" >> -> 2
      [] word = << "c" >> -> 3
      [] OTHER -> 4

\* QueryEngine::query, lines 178-183: the query text is analyzed to its
\* terms; a word of punctuation only is dropped by the analyzer.
QueryAnalysis(text) ==
    LET words == SelectSeq(WhiteSpaceTokenizer(text, << >>),
                           LAMBDA word : word # << "." >>)
    IN  [ i \in 1..Len(words) |-> QueryTerm(words[i]) ]

\* The query texts of the requests: "", " ", "  ", ".", "a", " a ", "a b",
\* "c", "a c" and "ab".
RequestQueries ==
    { << >>, << " " >>, << " ", " " >>, << "." >>, << "a" >>,
      << " ", "a", " " >>, << "a", " ", "b" >>, << "c" >>,
      << "a", " ", "c" >>, << "a", "b" >> }

\* What the store does during one request: it answers every call, or the
\* query engine's find fails, or the find on pages fails, or reading its
\* cursor fails.
StoreAnswers == { "ok", "engine_err", "find_err", "collect_err" }

\* The bytes of the UTF-8 encoding of the characters of a word of a page:
\* the letters of the terms 1 and 2 take one byte, the letter of term 3 takes
\* two, and a position without a token held the stop word "the".
WordBytes(page, position) ==
    LET here == SelectSeq(page.tokens, LAMBDA t : t.pos = position)
    IN  IF here = << >> THEN << 1, 1, 1 >>
        ELSE IF here[1].term = 3 THEN << 2 >> ELSE << 1 >>

\* The content of a page (cleaned_content or html_body, handlers.rs:69-73)
\* as the byte lengths of its characters: its words, one blank between two.
RECURSIVE ContentFrom(_, _)
ContentFrom(page, position) ==
    IF position > page.tokens[Len(page.tokens)].pos THEN << >>
    ELSE (IF position = 0 THEN << >> ELSE << 1 >>)
             \o WordBytes(page, position) \o ContentFrom(page, position + 1)

Content(page) == ContentFrom(page, 0)

\* String::len: the length in bytes.
RECURSIVE ByteLen(_)
ByteLen(content) ==
    IF content = << >> THEN 0 ELSE Head(content) + ByteLen(Tail(content))

\* str::is_char_boundary.
IsCharBoundary(content, index) ==
    \E n \in 0..Len(content) : ByteLen(SubSeq(content, 1, n)) = index

\* handlers.rs:75-79: the snippet of a content, as its length in bytes;
\* slicing a str off a character boundary panics.
Snippet(content) ==
    IF ByteLen(content) > SNIPPET_BYTES
    THEN IF IsCharBoundary(content, SNIPPET_BYTES)
         THEN [ panic |-> FALSE, bytes |-> SNIPPET_BYTES + 3 ]
         ELSE [ panic |-> TRUE, bytes |-> 0 ]
    ELSE [ panic |-> FALSE, bytes |-> ByteLen(content) ]

\* The response of search_handler.
Response(status, message, results) ==
    [ status |-> status, message |-> message, results |-> results ]

\* search_handler.
SearchHandler ==
    /\ handler_pc = "none"
    /\ \E text \in RequestQueries, store \in StoreAnswers :
         LET document_ids == query(inverted_index, QueryAnalysis(text)).result
             found == Range(document_ids) \cap DOMAIN pages
             results == [ id \in found |-> Snippet(Content(pages[id])) ]
         IN  /\ request' = [ query |-> text, store |-> store ]
             /\ IF Trim(text) = << >>
                THEN /\ response' = Response(400, "Query cannot be empty", << >>)
                     /\ handler_pc' = "responded"
                ELSE IF store = "engine_err"
                THEN /\ response' = Response(500, "Search error", << >>)
                     /\ handler_pc' = "responded"
                ELSE IF store \in { "find_err", "collect_err" }
                THEN /\ response' = Response(500, "Database error", << >>)
                     /\ handler_pc' = "responded"
                ELSE IF \E id \in found : results[id].panic
                THEN /\ response' = << >>
                     /\ handler_pc' = "panicked"
                ELSE /\ response' = Response(200, "", [ id \in found |-> results[id].bytes ])
                     /\ handler_pc' = "responded"
    /\ UNCHANGED << indexer_vars, query_vars, merge_lists_vars, analyzer_vars,
                    crawler_vars >>

NextSearch == SearchHandler

\* Search requests over an indexed corpus.
SpecSearch == InitQuery /\ [][NextSearch]_vars

\* ------------------------------------------------------ claim vocabulary

\* The last run has completed (its merge ran to the drop of the blocks).
Completed == run_status = "completed"

\* The inverted_index documents of a term.
TermDocs(index, term) == { e \in index : e.term = term }

\* The DocIds in the postings of a term, over all its documents.
TermDocIds(index, term) == UNION { Range(e.postings) : e \in TermDocs(index, term) }

\* How often DocId d occurs in a postings list.
Occurrences(postings, d) == Cardinality({ i \in 1..Len(postings) : postings[i] = d })

RECURSIVE SumOccurrences(_, _)
SumOccurrences(docs, d) ==
    IF docs = {} THEN 0
    ELSE LET e == CHOOSE x \in docs : TRUE
         IN  Occurrences(e.postings, d) + SumOccurrences(docs \ {e}, d)

StrictlyAscending(s) == \A i \in 1..Len(s) : \A j \in 1..Len(s) : i < j => s[i] < s[j]

NonDecreasing(s) == \A i \in 1..Len(s) : \A j \in 1..Len(s) : i < j => s[i] <= s[j]

\* An index up to the fresh _id and the derived document_frequency.
IndexContent(index) ==
    { [ term |-> e.term, bucket |-> e.bucket, postings |-> e.postings,
        positions |-> e.positions ] : e \in index }

\* The DocIds the blocks opened by the last run's merge hold for a term.
RunDocIds(term) == UNION { Range(b.postings) : b \in { x \in run_blocks : x.term = term } }

\* ----------------------------------------------------------------- claims

\* C1: after any sequence of indexer runs (first run on an empty index and
\* later incremental runs that append into an existing partial last bucket)
\* every inverted_index document holds at most DOCIDS_PER_MONGO_DOCUMENT
\* DocIds in its postings.
C1_ChunkBound ==
    Completed =>
        \A e \in inverted_index : Len(e.postings) <= DOCIDS_PER_MONGO_DOCUMENT

\* C2: after every completed merge the bucket numbers of every term are
\* exactly 0..n-1 with no gap and no repeated (term, bucket) pair, and every
\* bucket except possibly the last has exactly DOCIDS_PER_MONGO_DOCUMENT
\* postings and document_frequency = DOCIDS_PER_MONGO_DOCUMENT.
C2_ContiguousFullBuckets ==
    Completed =>
        \A term \in Terms :
            LET docs == TermDocs(inverted_index, term)
                n    == Cardinality(docs)
            IN  /\ { e.bucket : e \in docs } = { i \in 0..n : i < n }
                /\ \A e \in docs :
                       e.bucket + 1 < n =>
                           /\ Len(e.postings) = DOCIDS_PER_MONGO_DOCUMENT
                           /\ e.document_frequency = DOCIDS_PER_MONGO_DOCUMENT

\* C3: after every completed merge, for consecutive buckets B_i, B_{i+1} of
\* a term the largest DocId of B_i is smaller than the smallest DocId of
\* B_{i+1}, for any number of blocks and any listing order of the blocks.
C3_AscendingAcrossBuckets ==
    Completed =>
        \A term \in Terms :
            \A e1 \in TermDocs(inverted_index, term) :
                \A e2 \in TermDocs(inverted_index, term) :
                    e2.bucket = e1.bucket + 1 =>
                        \A d1 \in Range(e1.postings) :
                            \A d2 \in Range(e2.postings) : d1 < d2

\* C4: after every completed merge (incremental runs included) every
\* inverted_index document has strictly ascending postings,
\* document_frequency equal to the number of postings, and a positions map
\* whose key set is exactly the set of its postings.
C4_WellFormedBuckets ==
    Completed =>
        \A e \in inverted_index :
            /\ StrictlyAscending(e.postings)
            /\ e.document_frequency = Len(e.postings)
            /\ DOMAIN e.positions = Range(e.postings)

\* C5: after every completed merge the position list stored for every
\* (term, DocId) is sorted ascending, also when the tokens of the document
\* were split over two blocks or the document came from several blocks.
C5_PositionsAscending ==
    Completed =>
        \A e \in inverted_index :
            \A d \in DOMAIN e.positions : NonDecreasing(e.positions[d])

\* C6: after every completed merge every DocId occurs in the postings of at
\* most one bucket of a term, and its positions are stored in exactly that
\* bucket.
C6_OneBucketPerDoc ==
    Completed =>
        \A term \in Terms :
            \A d \in DocIds :
                /\ Cardinality({ e \in TermDocs(inverted_index, term) :
                                   d \in Range(e.postings) }) <= 1
                /\ \A e \in TermDocs(inverted_index, term) :
                       d \in DOMAIN e.positions <=> d \in Range(e.postings)

\* C7: if a page whose DocId is already in the postings of a term is
\* admitted again by a later run, then after that run the DocId still
\* occurs exactly once in the postings of the term, across all its buckets.
C7_ReadmissionKeepsOnePosting ==
    Completed =>
        \A term \in Terms :
            \A d \in run_admitted :
                d \in TermDocIds(index_at_start, term) =>
                    SumOccurrences(TermDocs(inverted_index, term), d) = 1

\* Every token of every page the last run admitted was in the index when
\* the run started: the run went over a corpus that was indexed before.
RunOverIndexedCorpus ==
    \A d \in run_admitted :
        \A i \in 1..Len(pages[d].tokens) :
            \E e \in TermDocs(index_at_start, pages[d].tokens[i].term) :
                /\ d \in DOMAIN e.positions
                /\ pages[d].tokens[i].pos \in Range(e.positions[d])

\* C8: running the indexer a second time over the same corpus produces the
\* same inverted index as running it once: the same terms, buckets,
\* postings and positions.
C8_MergerIdempotent ==
    (Completed /\ RunOverIndexedCorpus) =>
        IndexContent(inverted_index) = IndexContent(index_at_start)

\* C9: a run that aborts after its first block collection was written and
\* before the final drop of the block collections leaves inverted_index
\* identical to what it was before the run started.
C9_AbortLeavesIndexUnchanged ==
    (run_status = "aborted" /\ spimi_blocks # << >>) =>
        inverted_index = index_at_start

\* The case of C10 for a term: its last bucket had room before the run and
\* the DocIds the run contributes are new and fit into it.
C10_Case(term) ==
    /\ get_last_bucket(index_at_start, term) # {}
    /\ RunDocIds(term) # {}
    /\ RunDocIds(term) \cap TermDocIds(index_at_start, term) = {}
    /\ \A last \in get_last_bucket(index_at_start, term) :
           Len(last.postings) + Cardinality(RunDocIds(term))
               <= DOCIDS_PER_MONGO_DOCUMENT

\* C10: when the last bucket of a term holds n < DOCIDS_PER_MONGO_DOCUMENT
\* postings and a run contributes m new DocIds with n + m within the chunk
\* size, the run updates that same document in place to n + m postings with
\* document_frequency n + m and creates no new bucket for the term.
C10_AppendInPlace ==
    Completed =>
        \A term \in Terms :
            C10_Case(term) =>
                /\ { e.id : e \in TermDocs(inverted_index, term) }
                       = { e.id : e \in TermDocs(index_at_start, term) }
                /\ \A last \in get_last_bucket(index_at_start, term) :
                       \E e \in inverted_index :
                           /\ e.id = last.id
                           /\ e.term = term
                           /\ e.bucket = last.bucket
                           /\ e.postings = last.postings \o Ascending(RunDocIds(term))
                           /\ e.document_frequency
                                  = Len(last.postings) + Cardinality(RunDocIds(term))

\* A completed run that extended the partial last bucket of a term.
C10_Witness ==
    /\ Completed
    /\ \E term \in Terms :
           /\ C10_Case(term)
           /\ \E e \in TermDocs(inverted_index, term) :
                  Len(e.postings) = DOCIDS_PER_MONGO_DOCUMENT

\* The smallest number of chunks of size d that hold n items.
CeilDiv(n, d) == (n + d - 1) \div d

\* The positions the analyzer gives to tokens of the modelled pages.
TokenPositions == { c[i].pos : c \in PageContents, i \in 1..2 }

\* How often position p is stored for DocId d over a set of index or block
\* entries.
RECURSIVE PositionCount(_, _, _)
PositionCount(entries, d, p) ==
    IF entries = {} THEN 0
    ELSE LET e == CHOOSE x \in entries : TRUE
         IN  (IF d \in DOMAIN e.positions THEN Occurrences(e.positions[d], p) ELSE 0)
             + PositionCount(entries \ {e}, d, p)

\* The entries of a term in the blocks the last merge opened.
RunEntries(term) == { x \in run_blocks : x.term = term }

\* C11: merging blocks that hold N distinct DocIds for a term into an index
\* without an entry for the term produces exactly ceil(N / CHUNK) buckets,
\* all of CHUNK postings except the last, which holds the rest.
C11_BucketCount ==
    Completed =>
        \A term \in Terms :
            (TermDocs(index_at_start, term) = {} /\ RunDocIds(term) # {}) =>
                LET N    == Cardinality(RunDocIds(term))
                    docs == TermDocs(inverted_index, term)
                    n    == CeilDiv(N, DOCIDS_PER_MONGO_DOCUMENT)
                IN  /\ Cardinality(docs) = n
                    /\ \A e \in docs :
                           e.document_frequency =
                               IF e.bucket + 1 < n
                               THEN DOCIDS_PER_MONGO_DOCUMENT
                               ELSE N - DOCIDS_PER_MONGO_DOCUMENT * (n - 1)

\* C12: merging into an empty index loses and invents nothing: for every
\* term the DocIds over all its buckets are the union of its postings over
\* all blocks, and the positions stored for (term, DocId) are exactly the
\* positions all blocks together contribute for it.
C12_MergeLossless ==
    (Completed /\ index_at_start = {}) =>
        \A term \in Terms :
            /\ TermDocIds(inverted_index, term) = RunDocIds(term)
            /\ \A d \in DocIds :
                   \A p \in TokenPositions :
                       PositionCount(TermDocs(inverted_index, term), d, p)
                           = PositionCount(RunEntries(term), d, p)

\* A completed first merge in which two blocks contributed positions of the
\* same document for the same term.
C12_Witness ==
    /\ Completed
    /\ index_at_start = {}
    /\ \E term \in Terms :
           \E e1 \in RunEntries(term) :
               \E e2 \in RunEntries(term) :
                   /\ e1 # e2
                   /\ Range(e1.postings) \cap Range(e2.postings) # {}

\* C13: a merge that completes leaves no spimi_block_* collection, and the
\* block collections are dropped only after the merge's last write to
\* inverted_index: the step that drops them completes the run without
\* writing, and every write happens while the collections still exist.
C13_DropAfterLastWrite ==
    /\ [](Completed => spimi_blocks = << >>)
    /\ [][ /\ (spimi_blocks # << >> /\ spimi_blocks' = << >>) =>
                (run_status' = "completed" /\ inverted_index' = inverted_index)
           /\ (inverted_index' # inverted_index) =>
                (spimi_blocks # << >> /\ spimi_blocks' = spimi_blocks) ]_vars

\* A completed merge that wrote to inverted_index and dropped its blocks.
C13_Witness ==
    /\ Completed
    /\ run_blocks # {}
    /\ inverted_index # index_at_start
    /\ spimi_blocks = << >>

\* C14: when no spimi_block_* collection exists, merge_persisted_blocks
\* returns success and leaves inverted_index unchanged.
C14_NoBlocksNoOp ==
    (run_status # "running" /\ runs > 0 /\ num_blocks = 0) =>
        /\ run_status = "completed"
        /\ inverted_index = index_at_start
        /\ spimi_blocks = << >>

\* A merge that found no block collection returned over a non-empty index.
C14_Witness ==
    /\ Completed
    /\ num_blocks = 0
    /\ inverted_index # {}

\* ------------------------------------------------------------ query claims

\* A call of query has returned.
QueryDone == query_status = "done"

\* The terms of a query are pairwise distinct.
DistinctTerms(terms) == Cardinality(Range(terms)) = Len(terms)

\* Every term of a query has an entry in the index.
AllInIndex(index, terms) == \A t \in Range(terms) : TermDocs(index, t) # {}

\* The positions stored for a term and a DocId over all buckets of the term.
StoredPositions(index, term, d) ==
    UNION { Range(e.positions[d]) :
              e \in { x \in TermDocs(index, term) : d \in DOMAIN x.positions } }

\* The page holds the terms at consecutive positions p, p+1, ...
PhraseAt(index, terms, d) ==
    \E p \in 0..MaxQueryLen :
        \A i \in 1..Len(terms) : (p + i - 1) \in StoredPositions(index, terms[i], d)

\* C15: for a query of k >= 2 distinct terms that are all in the index,
\* every document that holds the terms at consecutive positions is in the
\* result, whatever the relative lengths of the terms' posting lists.
C15_PhraseFound ==
    (QueryDone /\ Len(query_terms) >= 2 /\ DistinctTerms(query_terms)
       /\ AllInIndex(inverted_index, query_terms)) =>
        \A d \in DocIds :
            PhraseAt(inverted_index, query_terms, d) => d \in Range(query_result)

\* The documents with a position of term a and a position of term b at most
\* one apart.
Adjacent(index, a, b) ==
    { d \in DocIds :
        \E pa \in StoredPositions(index, a, d) :
            \E pb \in StoredPositions(index, b, d) : AbsDiff(pa, pb) <= 1 }

C17_RepeatedTerm ==
    (QueryDone /\ Len(query_terms) = 2 /\ query_terms[1] = query_terms[2]
       /\ AllInIndex(inverted_index, query_terms)) =>
        \A d \in DocIds :
            PhraseAt(inverted_index, query_terms, d) => d \in Range(query_result)

\* C18: if an analyzed query term has no entry in inverted_index, query
\* returns the empty result whatever the other terms match; a query without
\* terms returns the empty result without reading the index.
C18_MissingTermEmpty ==
    QueryDone =>
        /\ ~AllInIndex(inverted_index, query_terms) => query_result = << >>
        /\ query_terms = << >> => (query_result = << >> /\ query_reads = 0)

\* A query returned with one term missing from the index and another term
\* present in it.
C18_Witness ==
    /\ QueryDone
    /\ query_result = << >>
    /\ \E t \in Range(query_terms) : TermDocs(inverted_index, t) = {}
    /\ \E t \in Range(query_terms) : TermDocs(inverted_index, t) # {}

\* C19: over an index that satisfies the bucket invariants a single-term
\* query returns exactly the DocIds of all buckets of the term, each once, in
\* ascending order, and every multi-term result is strictly ascending.
C19_ResultOrder ==
    QueryDone =>
        /\ Len(query_terms) = 1 =>
               query_result = Ascending(TermDocIds(inverted_index, query_terms[1]))
        /\ StrictlyAscending(query_result)

\* A single-term query returned the DocIds of a term with several buckets.
C19_Witness ==
    /\ QueryDone
    /\ Len(query_terms) = 1
    /\ Cardinality(TermDocs(inverted_index, query_terms[1])) >= 2
    /\ Len(query_result) > DOCIDS_PER_MONGO_DOCUMENT

\* The DocIds of a sequence of matches.
MatchedDocIds(matches) == { matches[i].doc_id : i \in 1..Len(matches) }

\* C20: for strictly ascending posting lists and ascending position lists
\* every match (d, p1, p2) of positional_intersect with window k has d in
\* both lists, p1 among the first map's positions of d, p2 among the second
\* map's and |p1 - p2| <= k; the matched DocIds are the same with the two
\* inputs swapped.
C20_PositionalIntersect ==
    pi_args # << >> =>
        LET pl1 == pi_args[1]
            m1  == pi_args[2]
            pl2 == pi_args[3]
            m2  == pi_args[4]
            k   == pi_args[5]
        IN  /\ \A i \in 1..Len(pi_out) :
                   /\ pi_out[i].doc_id \in Range(pl1) \cap Range(pl2)
                   /\ pi_out[i].position1 \in Range(m1[pi_out[i].doc_id])
                   /\ pi_out[i].position2 \in Range(m2[pi_out[i].doc_id])
                   /\ AbsDiff(pi_out[i].position1, pi_out[i].position2) <= k
            /\ MatchedDocIds(positional_intersect(pl2, m2, pl1, m1, k))
                   = MatchedDocIds(pi_out)

\* The triples (d, p1, p2) within the window k: d in both posting lists, p1
\* among the first map's positions of d and p2 among the second map's.
InWindowTriples(pl1, m1, pl2, m2, k) ==
    UNION { { PositionalMatch(d, m1[d][i], m2[d][j]) :
                  <<i, j>> \in { ij \in (1..Len(m1[d])) \X (1..Len(m2[d])) :
                                   AbsDiff(m1[d][ij[1]], m2[d][ij[2]]) <= k } } :
            d \in Range(pl1) \cap Range(pl2) }

\* C21: for strictly ascending posting lists and strictly ascending position
\* lists the set of matches positional_intersect returns is the set of all
\* (d, p1, p2) with d in both lists, p1 in M1[d], p2 in M2[d] and
\* |p1 - p2| <= k.
C21_AllInWindowTriples ==
    pi_args # << >> =>
        Range(pi_out) = InWindowTriples(pi_args[1], pi_args[2], pi_args[3],
                                        pi_args[4], pi_args[5])

\* How often a match stands in a sequence of matches.
CountMatch(matches, m) == Cardinality({ i \in 1..Len(matches) : matches[i] = m })

\* C22: for strictly ascending posting lists and strictly ascending position
\* lists positional_intersect returns each in-window triple exactly once,
\* also when several positions of the first list have overlapping windows.
C22_EachTripleOnce ==
    pi_args # << >> =>
        \A m \in InWindowTriples(pi_args[1], pi_args[2], pi_args[3],
                                 pi_args[4], pi_args[5]) :
            CountMatch(pi_out, m) = 1

BlockEntries(block, term) == { e \in block : e.term = term }

\* C25: every block entry written by a flush has postings sorted ascending
\* without duplicates, at most DOCIDS_PER_MONGO_DOCUMENT postings, a
\* document_frequency equal to the number of postings and a positions map
\* whose key set is the postings of the entry; the entries of one term are
\* numbered bucket 0, 1, 2, ... in chunk order.
C25_BlockEntries ==
    \A b \in 1..Len(spimi_blocks) :
        /\ \A e \in spimi_blocks[b] :
               /\ StrictlyAscending(e.postings)
               /\ Len(e.postings) <= DOCIDS_PER_MONGO_DOCUMENT
               /\ e.document_frequency = Len(e.postings)
               /\ DOMAIN e.positions = Range(e.postings)
        /\ \A term \in { e.term : e \in spimi_blocks[b] } :
               LET entries == BlockEntries(spimi_blocks[b], term)
               IN  /\ { e.bucket : e \in entries } = 0..(Cardinality(entries) - 1)
                   /\ \A e1 \in entries, e2 \in entries :
                          e1.bucket < e2.bucket =>
                              \A d1 \in Range(e1.postings), d2 \in Range(e2.postings) :
                                  d1 < d2

\* A flush wrote a term whose postings fill more than one entry.
C25_Witness ==
    \E b \in 1..Len(spimi_blocks) :
        \E e1 \in spimi_blocks[b], e2 \in spimi_blocks[b] :
            /\ e1.term = e2.term
            /\ e1.bucket = 0
            /\ e2.bucket = 1
            /\ Len(e1.postings) = DOCIDS_PER_MONGO_DOCUMENT

FilteredTerm(word) ==
    stem([ j \in 1..Len(TrimMatches(word)) |-> ToLowercase(TrimMatches(word)[j]) ])

\* Whether a word of the tokenizer's output gets through the token filters.
Survives(word) ==
    LET trimmed == TrimMatches(word)
        lower   == [ j \in 1..Len(trimmed) |-> ToLowercase(trimmed[j]) ]
    IN  /\ Len(trimmed) >= MIN_LENGTH
        /\ \E j \in 1..Len(lower) : IsAlphabetic(lower[j])
        /\ lower \notin STOP_WORDS

TasksOf(url) == { t \in 1..Len(tasks) : tasks[t].url = url }

\* C27: under any interleaving of fetch tasks that enqueue the links they
\* found, each distinct URL is handed to a fetch task at most once during a
\* crawl.
C27_AtMostOneTaskPerUrl ==
    \A url \in Urls : Cardinality(TasksOf(url)) <= 1

\* Two tasks found the same link: it has its one task, a second message for
\* it was dropped by the crawler loop, and both other pages were fetched.
C27_Witness ==
    \E url \in skipped :
        /\ Cardinality(TasksOf(url)) = 1
        /\ \A other \in Urls \ { url } :
               \E t \in TasksOf(other) : tasks[t].outcome = "page"

\* The tasks between acquiring and releasing the fetch permit.
PermitHolders == { t \in 1..Len(tasks) : tasks[t].permit }

\* C28: at every moment at most max_concurrent_fetches tasks are between
\* acquiring and releasing the fetch permit (fetching or waiting to retry),
\* and a task has released its permit on every exit path of the fetch loop
\* (success, non-HTML, retries exhausted).
C28_PermitsBounded ==
    /\ Cardinality(PermitHolders) <= MaxConcurrentFetches
    /\ crawler_pc # "none" =>
           concurrency_semaphore + Cardinality(PermitHolders) = MaxConcurrentFetches
    /\ \A t \in 1..Len(tasks) :
           /\ tasks[t].pc \in { "fetch", "sleep" } => tasks[t].permit
           /\ tasks[t].outcome # "none" => ~ tasks[t].permit

\* Every permit is taken by a task that is waiting to retry, another task
\* waits for a permit, and the task that fetched the seed has released its
\* permit.
C28_Witness ==
    /\ Cardinality(PermitHolders) = MaxConcurrentFetches
    /\ \A t \in PermitHolders : tasks[t].pc = "sleep"
    /\ \E t \in 1..Len(tasks) : tasks[t].pc = "acquire"
    /\ \E t \in 1..Len(tasks) : tasks[t].outcome = "page" /\ ~ tasks[t].permit

\* C29: for one URL the crawler makes at most MAX_FETCH_RETRIES fetch
\* attempts: a transient error leads to the backoff and another attempt, a
\* non-HTML result ends the loop without retry, and after the last failed
\* attempt the task gives up without producing a page.
C29_BoundedRetries ==
    \A t \in 1..Len(tasks) :
        /\ tasks[t].attempts <= MAX_FETCH_RETRIES
        /\ tasks[t].pc = "sleep" => tasks[t].retried = tasks[t].attempts
        /\ tasks[t].pc = "fetch" => tasks[t].retried < MAX_FETCH_RETRIES
        /\ tasks[t].outcome = "not_html" =>
               /\ tasks[t].pc = "done"
               /\ tasks[t].attempts = tasks[t].retried + 1
        /\ tasks[t].outcome = "gave_up" =>
               /\ tasks[t].pc = "done"
               /\ tasks[t].attempts = MAX_FETCH_RETRIES
               /\ tasks[t].url \notin upserted \cup Range(fetched_channel)

\* One task gave up after its last attempt and another fetched its page at
\* the last attempt.
C29_Witness ==
    /\ \E t \in 1..Len(tasks) :
           tasks[t].outcome = "gave_up" /\ tasks[t].attempts = MAX_FETCH_RETRIES
    /\ \E t \in 1..Len(tasks) :
           tasks[t].outcome = "page" /\ tasks[t].attempts = MAX_FETCH_RETRIES

\* C30: the search handler answers 400 when the query is empty or only
\* whitespace, 500 with a message when the query engine or the page lookup
\* returns a store error, and 200 (with a possibly empty result list) in
\* every other case.
C30_SearchStatus ==
    handler_pc # "none" =>
        /\ handler_pc = "responded"
        /\ response.status =
               IF Trim(request.query) = << >> THEN 400
               ELSE IF request.store # "ok" THEN 500
               ELSE 200
        /\ response.status = 500 => response.message # ""

\* ---------------------------------------------------------- cascade claims

\* The left fold along the query: the lists from index idx on are intersected
\* one after the other with the window of the cascade, and each step hands on
\* the documents it matched with the matched positions of the right-hand term.
RECURSIVE FoldLeft(_, _, _, _)
FoldLeft(posting_lists, idx, result, result_positions) ==
    IF idx > Len(posting_lists) THEN result
    ELSE LET matches == positional_intersect(result, result_positions,
                                             posting_lists[idx].pl,
                                             posting_lists[idx].positions,
                                             QUERY_WINDOW)
             new_positions == NewPositions(matches)
         IN  FoldLeft(posting_lists, idx + 1, Ascending(DOMAIN new_positions),
                      new_positions)

\* The posting lists of the terms of a query, in query order.
ListsOf(index, terms) ==
    [ i \in 1..Len(terms) |-> TermPostingAndPositions(index, terms[i]) ]

\* C31: for a query of distinct terms that are all in the index, the result
\* of the cascade equals the left fold in query order: it starts from the
\* postings and positions of the first term and intersects with the second,
\* third, ... term in this order with window 1, each step passing on the
\* matched positions of the right-hand term.
C31_CascadeIsLeftFold ==
    (QueryDone /\ Len(query_terms) >= 1 /\ DistinctTerms(query_terms)
       /\ AllInIndex(inverted_index, query_terms)) =>
        LET lists == ListsOf(inverted_index, query_terms)
        IN  query_result = FoldLeft(lists, 2, lists[1].pl, lists[1].positions)

\* ------------------------------------------------------ token stream claims

\* The Token messages of page d in a sequence of messages.
TokensOf(msgs, d) == SelectSeq(msgs, LAMBDA m : m.kind = "Token" /\ m.doc_id = d)

\* The pages a step marks: indexed is false before it and true after it.
NewlyIndexed ==
    { d \in 1..Len(pages) : ~pages[d].indexed /\ pages'[d].indexed }

\* C32: a page is marked indexed = true only after every token of that page
\* has been sent on the token stream, and all pages of a batch are marked in
\* one update issued after the whole batch was emitted: a step that marks a
\* page marks exactly the pages of the current batch, and every token of
\* each of them is among the messages sent.
C32_MarkAfterEmit ==
    [][ NewlyIndexed # {} =>
          /\ NewlyIndexed = Range(batch)
          /\ \A d \in Range(batch) : TokensOf(sent, d) = BatchTokens(pages, << d >>)
      ]_vars

\* A batch of two pages has been emitted and marked.
C32_Witness ==
    /\ run_status = "running"
    /\ producer_pc = "list"
    /\ Len(batch) = 2
    /\ \A d \in Range(batch) :
           /\ pages[d].indexed
           /\ TokensOf(sent, d) # << >>

\* The indexes of the End messages among the messages sent.
EndsSent == { i \in 1..Len(sent) : sent[i].kind = "End" }

C34_RunTerminates ==
    (run_status = "running") ~>
        (Completed /\ spimi_blocks = << >> /\ min_terms = {}
           /\ token_stream = << >>)

\* A run over several pages has completed: the End message was received,
\* the merge went through more than one block collection and dropped them.
C34_Witness ==
    /\ Completed
    /\ run_admitted # {}
    /\ received # << >>
    /\ received[Len(received)] = EndMsg
    /\ num_blocks >= 2
    /\ spimi_blocks = << >>

\* The Token messages among the messages the builder has received.
TokensReceived == SelectSeq(received, LAMBDA m : m.kind = "Token")

RECURSIVE StoredInBlocks(_, _)
StoredInBlocks(blocks, tok) ==
    IF blocks = << >> THEN 0
    ELSE PositionCount({ e \in Head(blocks) :
                           e.term = tok.term /\ tok.doc_id \in Range(e.postings) },
                       tok.doc_id, tok.pos)
         + StoredInBlocks(Tail(blocks), tok)

\* How often the token is held in a dictionary.
HeldInDict(d, tok) ==
    IF /\ tok.term \in DOMAIN d
       /\ tok.doc_id \in Range(d[tok.term].postings)
       /\ tok.doc_id \in DOMAIN d[tok.term].positions
    THEN Occurrences(d[tok.term].positions[tok.doc_id], tok.pos)
    ELSE 0

\* C36: every token received by the builder before End is written to
\* exactly one block collection with its term, DocId and position.  While
\* the builder reads the stream a received token is either in the dictionary
\* or in one block, never both and never lost (a budget-triggered flush
\* persists the whole dictionary before it is cleared, and an empty
\* dictionary goes with a byte estimate of 0); once End was received every
\* token is in exactly one block (the final flush persisted the rest).
C36_EveryTokenInOneBlock ==
    run_status = "running" =>
        /\ builder_pc = "invert" =>
               /\ \A i \in 1..Len(TokensReceived) :
                      StoredInBlocks(spimi_blocks, TokensReceived[i])
                          + HeldInDict(dict, TokensReceived[i]) = 1
               /\ dict = EmptyMap => used_bytes = 0
        /\ builder_pc \in { "merge_start", "merge", "cleanup" } =>
               \A i \in 1..Len(TokensReceived) :
                   StoredInBlocks(spimi_blocks, TokensReceived[i]) = 1

\* End was received after a budget-triggered flush and further tokens: the
\* first block came from the flush, the last from the final flush, and both
\* hold tokens.
C36_Witness ==
    /\ builder_pc = "merge_start"
    /\ Len(spimi_blocks) >= 2
    /\ spimi_blocks[1] # {}
    /\ spimi_blocks[Len(spimi_blocks)] # {}
    /\ Len(TokensReceived) >= 4

\* C37: at every point of the builder loop, for every term of the in-memory
\* dictionary, postings holds each DocId at most once, a DocId is in
\* postings exactly when it is a key of positions, and every position list
\* is non-empty and in ascending order.
C37_DictInvariant ==
    builder_pc = "invert" =>
        \A term \in DOMAIN dict :
            /\ \A d \in DocIds : Occurrences(dict[term].postings, d) <= 1
            /\ Range(dict[term].postings) = DOMAIN dict[term].positions
            /\ \A d \in DOMAIN dict[term].positions :
                   /\ dict[term].positions[d] # << >>
                   /\ StrictlyAscending(dict[term].positions[d])

\* The dictionary holds a term with two documents, one of them with two
\* positions.
C37_Witness ==
    /\ builder_pc = "invert"
    /\ \E term \in DOMAIN dict :
           /\ Len(dict[term].postings) >= 2
           /\ \E d \in DOMAIN dict[term].positions :
                  Len(dict[term].positions[d]) >= 2

\* ------------------------------------------------------------ merge claims

\* The entries of the log of the merge with the given operation.
MergeOps(op) == SelectSeq(merge_log, LAMBDA ev : ev.op = op)

\* The terms the merge has popped an entry of.
PoppedTerms == { MergeOps("pop")[i].term : i \in 1..Len(MergeOps("pop")) }

\* How often the log holds the operation for the term.
OpCount(op, term) ==
    Cardinality({ i \in 1..Len(merge_log) :
                    merge_log[i].op = op /\ merge_log[i].term = term })

\* The index of the first entry of the log with the operation and the term.
FirstOp(op, term) ==
    Min({ i \in 1..Len(merge_log) :
            merge_log[i].op = op /\ merge_log[i].term = term })

\* C38: the merger pops block entries in non-decreasing term order, and
\* among entries of the same term in ascending source index; each term is
\* therefore active during one contiguous stretch of pops, its existing last
\* bucket is looked up once, when it becomes active (right after its first
\* pop), and it is finalized at most once while the merge runs and exactly
\* once when the merge has drained the heap.
C38_PopOrder ==
    LET pops == MergeOps("pop")
    IN  /\ \A i \in 1..Len(pops) :
               \A j \in 1..Len(pops) :
                   i < j =>
                       /\ pops[i].term <= pops[j].term
                       /\ pops[i].term = pops[j].term =>
                              /\ pops[i].streamer_idx <= pops[j].streamer_idx
                              /\ \A k \in i..j : pops[k].term = pops[i].term
        /\ \A term \in PoppedTerms :
               /\ OpCount("get_last_bucket", term) = 1
               /\ FirstOp("pop", term) < FirstOp("get_last_bucket", term)
               /\ \A i \in FirstOp("pop", term)..FirstOp("get_last_bucket", term) :
                      merge_log[i].op # "pop" \/ i = FirstOp("pop", term)
               /\ OpCount("final_flush", term) <= 1
               /\ (term # active_term \/ builder_pc = "cleanup") =>
                      OpCount("final_flush", term) = 1
        /\ \A i \in 1..Len(merge_log) :
               merge_log[i].op # "pop" => merge_log[i].term \in PoppedTerms

\* The merge has drained a heap fed by two block collections that both hold
\* the first term, and it went on to a second term.
C38_Witness ==
    /\ builder_pc = "cleanup"
    /\ Cardinality(PoppedTerms) = 2
    /\ \E i \in 1..Len(MergeOps("pop")) :
           \E j \in 1..Len(MergeOps("pop")) :
               /\ MergeOps("pop")[i].term = MergeOps("pop")[j].term
               /\ MergeOps("pop")[i].streamer_idx < MergeOps("pop")[j].streamer_idx

\* ---------------------------------------------------------- recovery claims

\* The entries of the block collections the last run found when it started.
OrphanEntries == UNION Range(orphans)

\* The last run found block collections of a run that had aborted during its
\* merge: some posting of these blocks was already in inverted_index.
FoundPartlyMergedBlocks ==
    \E e \in OrphanEntries :
        \E d \in Range(e.postings) : d \in TermDocIds(index_at_start, e.term)

\* The positions of a term in a page.
PagePositions(d, term) ==
    { pages[d].tokens[i].pos :
        i \in { j \in 1..Len(pages[d].tokens) : pages[d].tokens[j].term = term } }

\* The pages whose tokens are in the index or in the blocks the last run
\* merged.
CoveredDocs ==
    UNION { TermDocIds(index_at_start, term) \cup RunDocIds(term) : term \in Terms }

\* C39: if a run aborts during the merge (after some writes to
\* inverted_index and before the block collections are dropped) and a later
\* run completes without admitting a page of these blocks again, the block
\* collections left behind are merged and dropped by that run and the
\* resulting inverted_index holds what an uninterrupted run would have
\* produced: every (term, DocId) of the covered pages once, with the
\* positions of the page once each.
C39_RecoveryAfterAbort ==
    (/\ Completed
     /\ orphans # << >>
     /\ FoundPartlyMergedBlocks
     /\ \A e \in OrphanEntries : Range(e.postings) \cap run_admitted = {}) =>
        /\ spimi_blocks = << >>
        /\ OrphanEntries \subseteq run_blocks
        /\ \A term \in Terms :
               \A d \in CoveredDocs :
                   /\ SumOccurrences(TermDocs(inverted_index, term), d)
                          = IF PagePositions(d, term) # {} THEN 1 ELSE 0
                   /\ \A p \in TokenPositions :
                          PositionCount(TermDocs(inverted_index, term), d, p)
                              = IF p \in PagePositions(d, term) THEN 1 ELSE 0

\* The token of page d with the given term and position is stored in an
\* inverted_index document of the term or in a block collection.
TokenStored(d, term, pos) ==
    \/ \E e \in TermDocs(inverted_index, term) :
           /\ d \in DOMAIN e.positions
           /\ pos \in Range(e.positions[d])
    \/ StoredInBlocks(spimi_blocks,
                      [ kind |-> "Token", term |-> term, doc_id |-> d,
                        pos |-> pos ]) >= 1

\* C40: at every point at which a run can abort (and so in every state
\* after an abort and after later runs), every page with indexed = true has
\* all of its tokens stored either in inverted_index or in a persisted
\* spimi_block_* collection.
C40_IndexedPagesAreStored ==
    \A d \in 1..Len(pages) :
        pages[d].indexed =>
            \A i \in 1..Len(pages[d].tokens) :
                TokenStored(d, pages[d].tokens[i].term, pages[d].tokens[i].pos)

====
